---- MODULE Spec2Model ----
(***************************************************************************)
(* Model of the Integration Resolution Engine of the shopping-list         *)
(* service: HomeAssistantListProvider.get_list_items and its per-provider  *)
(* handlers (src/shop/app/services/list_provider.py) against a Home        *)
(* Assistant backend whose requests may answer 200, answer another status  *)
(* or raise.                                                               *)
(***************************************************************************)
EXTENDS Integers, Sequences, FiniteSets, TLC

(***************************************************************************)
(* Bounds                                                                  *)
(***************************************************************************)
\* longest raw item sequence a backend source holds
MaxItems == 2
\* longest list for which the source that holds it, the contents of the
\* other sources and the further classifications are varied as well
MaxVariedItems == 1

(***************************************************************************)
(* Program constants                                                       *)
(***************************************************************************)
\* list_provider.py:74  supported_features value of a Bring! entity
BringFeatures == 71

LegacyListId == "shopping_list.shopping_list"
\* settings.todo_list_entity_id left empty
NoListId == ""
TodoListId == "todo.x"

(***************************************************************************)
(* Raw items.  A record-shaped item is a function from field names to      *)
(* values (any subset of fields may be missing); a bare-string item is     *)
(* [bare |-> s].  Fields keep one type each: status, ids and names are     *)
(* strings, completion flags are booleans, quantity is a number.           *)
(***************************************************************************)
IsStr(item) == "bare" \in DOMAIN item

\* dict.get(key, default)
Get(d, key, default) == IF key \in DOMAIN d THEN d[key] ELSE default

\* str(i), f"item_{i}"
Str(i) == ToString(i)
ItemIdx(i) == "item_" \o ToString(i)

\* str(item): the string itself for a str, the dict's repr otherwise
StrOf(item) == IF IsStr(item) THEN item.bare ELSE ToString(item)

\* `a or b` on strings
Or(a, b) == IF a /= "" THEN a ELSE b

Milk  == [summary |-> "Milk", quantity |-> 2]
Eggs  == [summary |-> "Eggs", purchase |-> TRUE]
Bread == [id |-> "b1", content |-> "Bread", checked |-> FALSE]
Rice  == [uid |-> "u1", summary |-> "Rice", status |-> "completed"]
Salt  == [id |-> "s1", name |-> "Salt", complete |-> TRUE]
Tea   == [id |-> "t1", name |-> "Tea", checked |-> TRUE]
Jam   == [uid |-> "u2", summary |-> "Jam", status |-> "COMPLETED",
          completed |-> TRUE]
Oats  == [bare |-> "Oats"]

RawItems == {Milk, Eggs, Bread, Rice, Salt, Tea, Jam, Oats}

\* a fully keyed active item, held by the sources that do not hold the list
Other == [uid |-> "o1", id |-> "o1", itemId |-> "o1", summary |-> "Other",
          name |-> "Other", text |-> "Other", content |-> "Other"]

RawSeqs == UNION {[1..n -> RawItems] : n \in 0..MaxItems}

(***************************************************************************)
(* Filtering and formatting a raw sequence.  Kept(raw, Done) is the        *)
(* increasing sequence of the (1-based) positions whose item is not Done;  *)
(* enumerate()'s index of position p is p - 1.                             *)
(***************************************************************************)
\* src/shop/app/services/list_provider.py:158-188 (and the like loops and
\* comprehensions of every handler)
Kept(raw, Done(_)) ==
    LET S == {p \in 1..Len(raw) : ~Done(raw[p])}
    IN  [k \in 1..Cardinality(S) |->
            CHOOSE p \in S : Cardinality({q \in S : q < p}) = k - 1]

Format(raw, Done(_), Make(_, _)) ==
    LET idx == Kept(raw, Done)
    IN  [k \in 1..Len(idx) |-> Make(idx[k] - 1, raw[idx[k]])]

HasStr(raw) == \E p \in 1..Len(raw) : IsStr(raw[p])

\* what a step of a handler yields: a returned list, the fall-through to
\* the next request of the chain, or an exception caught by the handler's
\* `except Exception: return []`
\* Continue(n): request number n of the handler is sent next
Return(items) == [ret |-> TRUE, items |-> items, exc |-> FALSE, next |-> 0]
\* faulty variant: the chain starts over with its first request
Continue_restart(n) == [ret |-> FALSE, items |-> <<>>, exc |-> FALSE, next |-> 1]
\* faulty variant: the request just answered is sent again
Continue_retry(n) == [ret |-> FALSE, items |-> <<>>, exc |-> FALSE, next |-> n - 1]
Continue(n) == [ret |-> FALSE, items |-> <<>>, exc |-> FALSE, next |-> n]
Raised == [ret |-> TRUE, items |-> <<>>, exc |-> TRUE, next |-> 0]
\* an exception caught by an inner `except`, after which request n is sent
Caught(n) == [ret |-> FALSE, items |-> <<>>, exc |-> TRUE, next |-> n]

(***************************************************************************)
(* The backend.  entity is the body of GET /api/states/{list_id}, service  *)
(* the body of POST /api/services/todo/get_items, todo_api the body of     *)
(* GET /api/todo/items and legacy the body of GET /api/shopping_list.      *)
(* A backend is built from a scenario: the entity's id and classification  *)
(* attributes, one raw list L, the source that holds L, and whether the    *)
(* sources read after it hold the one-item list <<Other>> or nothing.      *)
(***************************************************************************)
NoAttr == "-"

AttrNames == <<"items", "item", "todo_items", "entity_items", "item_names",
               "todos", "to_dos", "tasks", "purchases", "shopping_list",
               "products">>

KnownKinds == {"local_todo", "google_tasks", "todoist", "caldav",
               "alexa_todo", "bring", "legacy_shopping_list"}

\* the sources a kind's handler reads, in the order it reads them (the two
\* or three svc_ entries are the shapes of the one service response)
Sources(kind) ==
    CASE kind = "local_todo"   -> <<"items">>
      [] kind = "google_tasks" -> <<"svc_flat", "svc_env", "items">>
      [] kind = "todoist"      -> <<"svc_flat", "svc_env", "items">>
      [] kind = "caldav"       -> <<"todos">>
      [] kind = "alexa_todo"   -> <<"svc_flat", "svc_env", "items", "item_names",
                                    "todos", "to_dos", "tasks">>
      [] kind = "bring"        -> <<"svc_flat", "svc_env", "svc_env_other",
                                    "items", "item_names", "purchases",
                                    "shopping_list", "products", "purchase_items">>
      [] kind = "legacy_shopping_list" -> <<"legacy">>
      [] OTHER                 -> <<"items", "item", "todo_items", "entity_items",
                                    "todo_api", "svc_flat", "svc_env">>

IsSvc(src) == src \in {"svc_flat", "svc_env", "svc_env_other"}

\* purchase_items is a JSON object key -> record, kept as the sequence of its
\* <<key, data>> entries in document order; the list L is keyed item_0..
PurchaseMap(raw) == [p \in 1..Len(raw) |-> [key |-> ItemIdx(p - 1), data |-> raw[p]]]

Flat(raw) == [items |-> raw]
Enveloped(key, raw) == [service_response |-> (key :> [items |-> raw])]

\* the kind the scenario's attributes make the entity (used only to pick
\* the sources worth filling; the program classifies by its own code below)
ScenarioKind(list_id, feat, integ) ==
    IF feat = BringFeatures THEN "bring"
    ELSE IF integ \in KnownKinds THEN integ
    ELSE IF integ = NoAttr /\ list_id = LegacyListId THEN "legacy_shopping_list"
    ELSE "unknown"

\* an entry of the body of GET /api/states
StateOf(view) == [entity_id |-> view.list_id, state |-> view.entity.state,
                  attributes |-> view.entity.attributes]

\* further entities of the installation, each with its own responses:
\* a sensor whose id contains the list's base name, and a second to-do
\* entity that carries Bring!'s supported_features and another integration
SensorId == "sensor.x_items"
SecondTodoId == "todo.y"

Sensor ==
    [list_id |-> SensorId,
     entity |-> [state |-> "1", attributes |-> [items |-> <<Other>>]],
     service |-> [items |-> <<>>],
     todo_api |-> <<>>]

SecondTodo ==
    [list_id |-> SecondTodoId,
     entity |-> [state |-> "1",
                 attributes |-> [supported_features |-> BringFeatures,
                                 integration |-> "todoist",
                                 items |-> <<Other>>]],
     service |-> [items |-> <<Other, Eggs>>],
     todo_api |-> <<>>]

MkBackend(list_id, feat, integ, L, where, rest) ==
    LET kind == ScenarioKind(list_id, feat, integ)
        srcs == Sources(kind)
        Pos(src) == IF \E i \in 1..Len(srcs) : srcs[i] = src
                    THEN CHOOSE i \in 1..Len(srcs) : srcs[i] = src ELSE 0
        \* what source src holds
        Held(src) == IF where /= 0 /\ srcs[where] = src THEN L
                     ELSE IF rest /\ Pos(src) > where
                               /\ ~(where /= 0 /\ IsSvc(srcs[where]) /\ IsSvc(src))
                          THEN <<Other>> ELSE <<>>
        names == {AttrNames[i] : i \in 1..Len(AttrNames)}
        present == {a \in names : Pos(a) /= 0 /\ (Held(a) /= <<>> \/ (where /= 0 /\ srcs[where] = a))}
        itemAttrs == [a \in present |-> Held(a)]
        pmap == IF Pos("purchase_items") /= 0 /\ Held("purchase_items") /= <<>>
                THEN "purchase_items" :> PurchaseMap(Held("purchase_items"))
                ELSE <<>>
        feats == IF feat = 0 THEN <<>> ELSE "supported_features" :> feat
        integr == IF integ = NoAttr THEN <<>> ELSE "integration" :> integ
        svc == IF where /= 0 /\ srcs[where] = "svc_env" THEN Enveloped(list_id, L)
               ELSE IF where /= 0 /\ srcs[where] = "svc_env_other"
                    THEN Enveloped("todo.other", L)
               ELSE Flat(Held("svc_flat"))
        entity == [state |-> Str(Len(L)),
                   attributes |-> feats @@ integr @@ itemAttrs @@ pmap]
    IN  [list_id |-> list_id,
         entity |-> entity,
         service |-> svc,
         todo_api |-> Held("todo_api"),
         legacy |-> Held("legacy"),
         others |-> <<>>,
         states |-> <<StateOf([list_id |-> list_id, entity |-> entity])>>]

\* the backend b where the entity carries a friendly name (or not) and
\* stands next to the further entities others
Installation(b, friendly, others) ==
    LET fname == IF friendly THEN "friendly_name" :> "Groceries" ELSE <<>>
        entity == [b.entity EXCEPT !.attributes = fname @@ @]
    IN  [b EXCEPT !.entity = entity,
                  !.others = others,
                  !.states = <<StateOf([list_id |-> b.list_id, entity |-> entity])>>
                             \o [k \in 1..Len(others) |-> StateOf(others[k])]]

\* the backend as the requests about another of its entities see it
ViewOf(b, k) ==
    [list_id |-> b.others[k].list_id,
     entity |-> b.others[k].entity,
     service |-> b.others[k].service,
     todo_api |-> b.others[k].todo_api,
     legacy |-> b.legacy,
     others |-> b.others,
     states |-> b.states]

\* <<list_id, supported_features (0: absent), integration>>: one way of
\* making each kind, and further ways of making the same kinds
Classifs ==
    ({TodoListId} \X {0} \X ({NoAttr} \cup KnownKinds))
MoreClassifs ==
    ({TodoListId} \X {0} \X {"", "Todoist"})
    \cup ({TodoListId} \X {BringFeatures} \X {NoAttr, "todoist", "Todoist"})
    \cup {<<TodoListId, 7, NoAttr>>}
    \cup ({LegacyListId} \X {0} \X {NoAttr, "", "todoist"})
    \cup {<<NoListId, 0, NoAttr>>}

\* the scenarios: where = 0 places L nowhere; rest is only varied where a
\* source is read after the one that holds L; the further classifications
\* keep L in the first source of their kind
Scenarios ==
    {sc \in [c : Classifs \cup MoreClassifs, L : RawSeqs,
             where : 0..Len(Sources("bring")), rest : BOOLEAN] :
        LET n == Len(Sources(ScenarioKind(sc.c[1], sc.c[2], sc.c[3])))
        IN  /\ sc.where <= n
            /\ (sc.rest => sc.where < n)
            /\ (sc.where = 0 => sc.L = <<>>)
            /\ (sc.c \in MoreClassifs => sc.where = 1 /\ ~sc.rest)
            /\ (sc.rest \/ sc.where > 1 \/ sc.c \in MoreClassifs
                    => Len(sc.L) <= MaxVariedItems)}

Backends ==
    {MkBackend(sc.c[1], sc.c[2], sc.c[3], sc.L, sc.where, sc.rest) :
        sc \in Scenarios}

(***************************************************************************)
(* Classification: _detect_integration_type.  out is what the request did: *)
(* "ok" (status 200), "bad" (another status) or "raise" (an exception).    *)
(***************************************************************************)
Outcomes == {"ok", "bad", "raise"}

\* faulty variant: an entity whose state is "0" is not classified
detect_integration_type_by_state(out, b) ==
    IF out = "ok" /\ b.entity.state /= "0"
    THEN LET attrs == b.entity.attributes
         IN  IF Get(attrs, "supported_features", 0) = BringFeatures THEN "bring"
             ELSE IF "integration" \in DOMAIN attrs THEN attrs["integration"]
             ELSE IF b.list_id = LegacyListId THEN "legacy_shopping_list"
             ELSE "unknown"
    ELSE "unknown"

detect_integration_type(out, b) ==
    IF out = "ok"
    THEN LET attrs == b.entity.attributes
             supported_features == Get(attrs, "supported_features", 0)
         IN  IF supported_features = BringFeatures THEN "bring"
             ELSE IF "integration" \in DOMAIN attrs THEN attrs["integration"]
             ELSE IF b.list_id = LegacyListId THEN "legacy_shopping_list"
             ELSE "unknown"
    ELSE "unknown"

(***************************************************************************)
(* The handlers.  Each operator is one handler; a is the number of the     *)
(* request of the handler that has just been answered with outcome out.    *)
(* A request that raises, or a bare-string item reaching item.get, leaves  *)
(* through the handler's `except Exception: return []`.                    *)
(***************************************************************************)
Attr(b, name) == Get(b.entity.attributes, name, <<>>)

\* _get_local_todo_items
get_local_todo_items(a, out, b) ==
    LET items == Attr(b, "items")
        Done(item) == Get(item, "complete", FALSE) \/ Get(item, "completed", FALSE)
        Make(i, item) == [id |-> Get(item, "id", ItemIdx(i)),
                          name |-> Get(item, "name", ""), raw |-> item]
    IN  IF out = "raise" THEN Raised
        ELSE IF out = "bad" THEN Return(<<>>)
        ELSE IF HasStr(items) THEN Raised
        ELSE Return(Format(items, Done, Make))

\* _get_google_tasks_items
get_google_tasks_items(a, out, b) ==
    LET Done(item) == Get(item, "status", "") = "completed"
        Make(i, item) ==
            [id |-> Get(item, "id", ""),
             name |-> IF a = 1 THEN Get(item, "summary", "")
                      ELSE Or(Get(item, "summary", ""), Get(item, "title", "")),
             raw |-> item]
        items == IF a = 1 THEN Get(b.service, "items", <<>>) ELSE Attr(b, "items")
    IN  IF out = "raise" THEN Raised
        ELSE IF out = "bad" THEN (IF a = 1 THEN Continue(a + 1) ELSE Return(<<>>))
        ELSE IF HasStr(items) THEN Raised
        ELSE Return(Format(items, Done, Make))

\* faulty variant: a non-200 service answer ends the handler with []
get_todoist_items_nofallback(a, out, b) ==
    LET Done(item) == Get(item, "checked", FALSE) \/ Get(item, "completed", FALSE)
        Make(i, item) ==
            [id |-> Get(item, "id", ""),
             name |-> Or(Get(item, "content", ""), Get(item, "name", "")),
             raw |-> item]
        items == IF a = 1 THEN Get(b.service, "items", <<>>) ELSE Attr(b, "items")
    IN  IF out = "raise" THEN Raised
        ELSE IF out = "bad" THEN Return(<<>>)
        ELSE IF HasStr(items) THEN Raised
        ELSE Return(Format(items, Done, Make))

\* faulty variant: only checked is tested
get_todoist_items_checked_only(a, out, b) ==
    LET Done(item) == Get(item, "checked", FALSE)
        Make(i, item) ==
            [id |-> Get(item, "id", ""),
             name |-> Or(Get(item, "content", ""), Get(item, "name", "")),
             raw |-> item]
        items == IF a = 1 THEN Get(b.service, "items", <<>>) ELSE Attr(b, "items")
    IN  IF out = "raise" THEN Raised
        ELSE IF out = "bad" THEN (IF a = 1 THEN Continue(a + 1) ELSE Return(<<>>))
        ELSE IF HasStr(items) THEN Raised
        ELSE Return(Format(items, Done, Make))

\* _get_todoist_items
get_todoist_items(a, out, b) ==
    LET Done(item) == Get(item, "checked", FALSE) \/ Get(item, "completed", FALSE)
        Make(i, item) ==
            [id |-> Get(item, "id", ""),
             name |-> Or(Get(item, "content", ""), Get(item, "name", "")),
             raw |-> item]
        items == IF a = 1 THEN Get(b.service, "items", <<>>) ELSE Attr(b, "items")
    IN  IF out = "raise" THEN Raised
        ELSE IF out = "bad" THEN (IF a = 1 THEN Continue(a + 1) ELSE Return(<<>>))
        ELSE IF HasStr(items) THEN Raised
        ELSE Return(Format(items, Done, Make))

\* faulty variant: the status is compared without regard to case
get_caldav_items_anycase(a, out, b) ==
    LET Done(item) == Get(item, "status", "") \in {"COMPLETED", "completed"}
        Make(i, item) ==
            [id |-> Get(item, "uid", ""),
             name |-> Or(Get(item, "summary", ""), Get(item, "description", "")),
             raw |-> item]
        items == Attr(b, "todos")
    IN  IF out = "raise" THEN Raised
        ELSE IF out = "bad" THEN Return(<<>>)
        ELSE IF HasStr(items) THEN Raised
        ELSE Return(Format(items, Done, Make))

\* _get_caldav_items
get_caldav_items(a, out, b) ==
    LET Done(item) == Get(item, "status", "") = "COMPLETED"
        Make(i, item) ==
            [id |-> Get(item, "uid", ""),
             name |-> Or(Get(item, "summary", ""), Get(item, "description", "")),
             raw |-> item]
        items == Attr(b, "todos")
    IN  IF out = "raise" THEN Raised
        ELSE IF out = "bad" THEN Return(<<>>)
        ELSE IF HasStr(items) THEN Raised
        ELSE Return(Format(items, Done, Make))

\* faulty variant: the last non-empty attribute wins
FirstNonEmpty_last(b, names) ==
    LET hit == {k \in 1..Len(names) : Get(b.entity.attributes, names[k], <<>>) /= <<>>}
    IN  IF hit = {} THEN <<>>
        ELSE <<names[CHOOSE k \in hit : \A j \in hit : k >= j]>>

\* the first of the attribute names whose value is a non-empty sequence, as
\* a one-element sequence; <<>> when there is none
FirstNonEmpty(b, names) ==
    LET hit == {k \in 1..Len(names) : Attr(b, names[k]) /= <<>>}
    IN  IF hit = {} THEN <<>>
        ELSE <<names[CHOOSE k \in hit : \A j \in hit : k <= j]>>

AlexaAttrs == <<"items", "item_names", "todos", "to_dos", "tasks">>

\* _get_alexa_todo_items
get_alexa_todo_items(a, out, b) ==
    LET Done1(item) == Get(item, "complete", FALSE) = TRUE
        Make1(i, item) ==
            [id |-> Or(Get(item, "itemId", ""), Get(item, "id", "")),
             name |-> Or(Get(item, "text", ""), Get(item, "name", "")),
             raw |-> item]
        Done2(item) == ~IsStr(item)
                       /\ (Get(item, "complete", FALSE) \/ Get(item, "completed", FALSE))
        Make2(i, item) ==
            IF IsStr(item)
            THEN [id |-> ItemIdx(i), name |-> StrOf(item), raw |-> item]
            ELSE [id |-> Or(Get(item, "itemId", ""), Get(item, "id", Str(i))),
                  name |-> Or(Get(item, "text", ""), Get(item, "name", "")),
                  raw |-> item]
        svc == Get(b.service, "items", <<>>)
        found == FirstNonEmpty(b, AlexaAttrs)
    IN  IF out = "raise" THEN Raised
        ELSE IF out = "bad" THEN (IF a = 1 THEN Continue(a + 1) ELSE Return(<<>>))
        ELSE IF a = 1
             THEN (IF HasStr(svc) THEN Raised
                   ELSE Return(Format(svc, Done1, Make1)))
             ELSE (IF found = <<>> THEN Return(<<>>)
                   ELSE Return(Format(Attr(b, found[1]), Done2, Make2)))

\* _get_legacy_shopping_list_items
get_legacy_shopping_list_items(a, out, b) ==
    LET Done(item) == Get(item, "complete", FALSE)
        Make(i, item) == [id |-> Get(item, "id", ""),
                          name |-> Get(item, "name", ""), raw |-> item]
    IN  IF out = "raise" THEN Raised
        ELSE IF out = "bad" THEN Return(<<>>)
        ELSE IF HasStr(b.legacy) THEN Raised
        ELSE Return(Format(b.legacy, Done, Make))

GenericAttrs == <<"items", "item", "todo_items", "entity_items">>

\* _get_generic_items
get_generic_items(a, out, b) ==
    LET Done1(item) == Get(item, "complete", FALSE)
                       \/ Get(item, "status", "") = "completed"
        Make1(i, item) ==
            [id |-> Or(Get(item, "uid", ""), Or(Get(item, "id", ""),
                       Or(Get(item, "item_id", ""), Str(i)))),
             name |-> Or(Get(item, "summary", ""), Or(Get(item, "name", ""),
                         Or(Get(item, "description", ""),
                            Or(Get(item, "title", ""), StrOf(item))))),
             status |-> Get(item, "status", "needs_action"),
             raw |-> item]
        Done2(item) == Get(item, "status", "") = "completed"
        Make2(i, item) == [id |-> Get(item, "uid", ""),
                           name |-> Get(item, "summary", ""),
                           status |-> Get(item, "status", "needs_action"),
                           raw |-> item]
        found == FirstNonEmpty(b, GenericAttrs)
        items == IF a = 2 THEN b.todo_api ELSE Get(b.service, "items", <<>>)
    IN  IF out = "raise" THEN Raised
        ELSE IF out = "bad" THEN (IF a < 3 THEN Continue(a + 1) ELSE Return(<<>>))
        ELSE IF a = 1
             THEN (IF found = <<>> THEN Continue(a + 1)
                   ELSE IF HasStr(Attr(b, found[1])) THEN Raised
                   ELSE Return(Format(Attr(b, found[1]), Done1, Make1)))
             ELSE (IF HasStr(items) THEN Raised
                   ELSE Return(Format(items, Done2, Make2)))

BringAttrs == <<"items", "item_names", "purchases", "shopping_list", "products">>

\* the items of a service response, flat or enveloped under the entity id
\* (list_provider.py:525-539)
ServiceItems(b) ==
    IF "service_response" \in DOMAIN b.service
    THEN LET service_response == b.service["service_response"]
         IN  IF b.list_id \in DOMAIN service_response
             THEN Get(service_response[b.list_id], "items", <<>>)
             ELSE <<>>
    ELSE Get(b.service, "items", <<>>)

\* the items of the raw-id service response: enveloped only
\* (list_provider.py:664-673)
RawIdServiceItems(b) ==
    IF "service_response" \in DOMAIN b.service
    THEN LET service_response == b.service["service_response"]
         IN  IF b.list_id \in DOMAIN service_response
             THEN Get(service_response[b.list_id], "items", <<>>)
             ELSE <<>>
    ELSE <<>>

WithQuantity(name, item) ==
    IF Get(item, "quantity", 0) /= 0
    THEN name \o " (" \o Str(item["quantity"]) \o ")"
    ELSE name

\* str(uuid.uuid4()): uuid is the value drawn for this call
Uuid4(uuid, i) == uuid \o "-" \o Str(i)

UuidDraws == {"uuid-a", "uuid-b"}

\* _get_bring_items
get_bring_items(a, out, b, uuid) ==
    LET Done1(item) == \/ Get(item, "status", "") = "completed"
                       \/ Get(item, "complete", FALSE)
                       \/ Get(item, "checked", FALSE)
                       \/ Get(item, "purchase", FALSE)
        Make1(i, item) ==
            [id |-> Or(Get(item, "uid", ""), Or(Get(item, "id", ""),
                       Or(Get(item, "item_id", ""), Uuid4(uuid, i)))),
             name |-> WithQuantity(Or(Get(item, "summary", ""),
                          Or(Get(item, "name", ""),
                             Or(Get(item, "text", ""), StrOf(item)))), item),
             raw |-> item]
        Done2(item) == ~IsStr(item)
                       /\ (\/ Get(item, "status", "") = "completed"
                           \/ Get(item, "complete", FALSE)
                           \/ Get(item, "purchase", FALSE))
        Make2(i, item) ==
            IF IsStr(item)
            THEN [id |-> ItemIdx(i), name |-> StrOf(item), raw |-> item]
            ELSE [id |-> Or(Get(item, "uid", ""), Or(Get(item, "id", ""), Str(i))),
                  name |-> WithQuantity(Or(Get(item, "summary", ""),
                              Or(Get(item, "name", ""), StrOf(item))), item),
                  raw |-> item]
        \* purchase_items entries: only dict-shaped data is taken
        DoneP(e) == IsStr(e.data) \/ Get(e.data, "purchased", FALSE)
        MakeP(i, e) ==
            [id |-> e.key,
             name |-> WithQuantity(Or(Get(e.data, "name", ""), e.key), e.data),
             raw |-> e.data]
        Done3(item) == ~IsStr(item)
                       /\ (\/ Get(item, "status", "") = "completed"
                           \/ Get(item, "complete", FALSE)
                           \/ Get(item, "purchased", FALSE))
        Make3(i, item) ==
            IF IsStr(item)
            THEN [id |-> ItemIdx(i), name |-> StrOf(item), raw |-> item]
            ELSE [id |-> Or(Get(item, "uid", ""), Or(Get(item, "id", ""), Str(i))),
                  name |-> Or(Get(item, "name", ""),
                              Or(Get(item, "summary", ""), StrOf(item))),
                  raw |-> item]
        found == FirstNonEmpty(b, BringAttrs)
        purchase == Format(Attr(b, "purchase_items"), DoneP, MakeP)
    IN  IF out = "raise" THEN Raised
        ELSE IF out = "bad" THEN (IF a < 3 THEN Continue(a + 1) ELSE Return(<<>>))
        ELSE IF a = 1
             THEN (IF HasStr(ServiceItems(b)) THEN Raised
                   ELSE Return(Format(ServiceItems(b), Done1, Make1)))
        ELSE IF a = 2
             THEN (IF found /= <<>>
                   THEN Return(Format(Attr(b, found[1]), Done2, Make2))
                   ELSE IF purchase /= <<>> THEN Return(purchase)
                   ELSE Continue(a + 1))
        ELSE Return(Format(RawIdServiceItems(b), Done3, Make3))

(***************************************************************************)
(* The handlers of the multi-list provider (src/app/services/              *)
(* list_provider.py) that differ from the ones above.  Entity ids are      *)
(* atomic strings, so startswith / replace / `in` are given for the ids    *)
(* of the model.                                                           *)
(***************************************************************************)
\* entity_id.startswith("todo."), entity_id.startswith("sensor.")
IsTodoId(id) == id \in {TodoListId, SecondTodoId}
IsSensorId(id) == id = SensorId

\* list_id.replace("todo.", "")
BaseName(id) ==
    CASE id = TodoListId -> "x"
      [] id = SecondTodoId -> "y"
      [] OTHER -> id

\* sub in entity_id
Contains(id, sub) ==
    \/ sub = id
    \/ sub = "x" /\ id \in {TodoListId, SensorId}
    \/ sub = "y" /\ id = SecondTodoId

\* int(state_value): the number, or -1 for a ValueError
StateNum(state) ==
    IF \E n \in 0..(MaxItems + 1) : Str(n) = state
    THEN CHOOSE n \in 0..(MaxItems + 1) : Str(n) = state
    ELSE -1

\* the position of the first element of seq that satisfies Hit; 0 if none
FirstPos(seq, Hit(_)) ==
    LET S == {k \in 1..Len(seq) : Hit(seq[k])}
    IN  IF S = {} THEN 0 ELSE CHOOSE k \in S : \A j \in S : k <= j

\* get_list_items(list_id, integration_type), the fall-through branch
get_list_items_generic(a, out, b) ==
    LET Done1(item) == Get(item, "complete", FALSE)
                       \/ Get(item, "status", "") = "completed"
        Make1(i, item) ==
            [id |-> Or(Get(item, "uid", ""), Or(Get(item, "id", ""),
                       Or(Get(item, "item_id", ""), Str(i)))),
             name |-> Or(Get(item, "summary", ""), Or(Get(item, "name", ""),
                         Or(Get(item, "description", ""),
                            Or(Get(item, "title", ""), StrOf(item))))),
             status |-> Get(item, "status", "needs_action"),
             raw |-> item]
        MakeR(i, item) ==
            [id |-> Or(Get(item, "uid", ""), Or(Get(item, "id", ""), Str(i))),
             name |-> Or(Get(item, "summary", ""),
                         Or(Get(item, "name", ""), StrOf(item))),
             status |-> "needs_action",
             raw |-> item]
        Done2(item) == Get(item, "status", "") = "completed"
        Make2(i, item) == [id |-> Get(item, "uid", ""),
                           name |-> Get(item, "summary", ""),
                           status |-> Get(item, "status", "needs_action"),
                           raw |-> item]
        found == FirstNonEmpty(b, GenericAttrs)
        items == IF a = 3 THEN b.todo_api ELSE Get(b.service, "items", <<>>)
        \* the related entity that decides the scan: the first one whose
        \* items raise or leave an active item
        ItemsOf(e) == Get(e.attributes, "items", <<>>)
        Decides(e) == /\ IsTodoId(e.entity_id) /\ e.entity_id /= b.list_id
                      /\ ItemsOf(e) /= <<>>
                      /\ (HasStr(ItemsOf(e)) \/ \E p \in 1..Len(ItemsOf(e)) :
                                                    ~Done1(ItemsOf(e)[p]))
        hit == FirstPos(b.states, Decides)
    IN  IF a = 1
        THEN (IF out = "raise" THEN Raised
              ELSE IF out = "bad" THEN Continue(3)
              ELSE IF found /= <<>>
                   THEN (IF HasStr(Attr(b, found[1])) THEN Raised
                         ELSE Return(Format(Attr(b, found[1]), Done1, Make1)))
              ELSE IF Get(b.entity.attributes, "friendly_name", "") /= ""
                   THEN Continue(2)
              ELSE Continue(3))
        ELSE IF a = 2
        THEN (IF out = "raise" THEN Caught(3)
              ELSE IF out = "bad" \/ hit = 0 THEN Continue(3)
              ELSE IF HasStr(ItemsOf(b.states[hit])) THEN Caught(3)
              ELSE Return(Format(ItemsOf(b.states[hit]), Done1, MakeR)))
        ELSE (IF out = "raise" THEN Raised
              ELSE IF out = "bad" THEN (IF a = 3 THEN Continue(4) ELSE Return(<<>>))
              ELSE IF HasStr(items) THEN Raised
              ELSE Return(Format(items, Done2, Make2)))

\* _get_alexa_todo_items (src/app)
get_alexa_todo_items_app(a, out, b) ==
    LET Done1(item) == Get(item, "complete", FALSE) = TRUE
        Make1(i, item) ==
            [id |-> Or(Get(item, "itemId", ""), Get(item, "id", "")),
             name |-> Or(Get(item, "text", ""), Get(item, "name", "")),
             raw |-> item]
        Done2(item) == ~IsStr(item)
                       /\ (Get(item, "complete", FALSE) \/ Get(item, "completed", FALSE))
        Make2(i, item) ==
            IF IsStr(item)
            THEN [id |-> ItemIdx(i), name |-> StrOf(item), raw |-> item]
            ELSE [id |-> Or(Get(item, "itemId", ""), Get(item, "id", Str(i))),
                  name |-> Or(Get(item, "text", ""), Get(item, "name", "")),
                  raw |-> item]
        svc == Get(b.service, "items", <<>>)
        found == FirstNonEmpty(b, AlexaAttrs)
    IN  IF out = "raise" THEN Raised
        ELSE IF a = 1
             THEN (IF out = "bad" THEN Continue(2)
                   ELSE IF HasStr(svc) THEN Raised
                   ELSE Return(Format(svc, Done1, Make1)))
        ELSE IF a = 2
             THEN (IF out = "bad" \/ found = <<>> THEN Continue(3)
                   ELSE Return(Format(Attr(b, found[1]), Done2, Make2)))
        ELSE Return(<<>>)

\* _get_bring_items (src/app)
get_bring_items_app(a, out, b, uuid) ==
    LET Done1(item) == \/ Get(item, "status", "") = "completed"
                       \/ Get(item, "complete", FALSE)
                       \/ Get(item, "checked", FALSE)
                       \/ Get(item, "purchase", FALSE)
        Make1(i, item) ==
            [id |-> Or(Get(item, "uid", ""), Or(Get(item, "id", ""),
                       Or(Get(item, "item_id", ""), Uuid4(uuid, i)))),
             name |-> WithQuantity(Or(Get(item, "summary", ""),
                          Or(Get(item, "name", ""),
                             Or(Get(item, "text", ""), StrOf(item)))), item),
             raw |-> item]
        Done2(item) == ~IsStr(item)
                       /\ (\/ Get(item, "status", "") = "completed"
                           \/ Get(item, "complete", FALSE)
                           \/ Get(item, "purchase", FALSE))
        Make2(i, item) ==
            IF IsStr(item)
            THEN [id |-> ItemIdx(i), name |-> StrOf(item), raw |-> item]
            ELSE [id |-> Or(Get(item, "uid", ""), Or(Get(item, "id", ""), Str(i))),
                  name |-> WithQuantity(Or(Get(item, "summary", ""),
                              Or(Get(item, "name", ""), StrOf(item))), item),
                  raw |-> item]
        MakeR(i, item) ==
            IF IsStr(item)
            THEN [id |-> ItemIdx(i), name |-> StrOf(item), raw |-> item]
            ELSE [id |-> Or(Get(item, "uid", ""), Or(Get(item, "id", ""), Str(i))),
                  name |-> Or(Get(item, "summary", ""),
                              Or(Get(item, "name", ""), StrOf(item))),
                  raw |-> item]
        DoneP(e) == IsStr(e.data) \/ Get(e.data, "purchased", FALSE)
        MakeP(i, e) ==
            [id |-> e.key,
             name |-> WithQuantity(Or(Get(e.data, "name", ""), e.key), e.data),
             raw |-> e.data]
        Done3(item) == ~IsStr(item)
                       /\ (\/ Get(item, "status", "") = "completed"
                           \/ Get(item, "complete", FALSE)
                           \/ Get(item, "purchased", FALSE))
        Make3(i, item) ==
            IF IsStr(item)
            THEN [id |-> ItemIdx(i), name |-> StrOf(item), raw |-> item]
            ELSE [id |-> Or(Get(item, "uid", ""), Or(Get(item, "id", ""), Str(i))),
                  name |-> Or(Get(item, "name", ""),
                              Or(Get(item, "summary", ""), StrOf(item))),
                  raw |-> item]
        found == FirstNonEmpty(b, BringAttrs)
        purchase == Format(Attr(b, "purchase_items"), DoneP, MakeP)
        \* the related entities and, of each, the first attribute (in probe
        \* order) that leaves an active item
        Related(e) == /\ IsTodoId(e.entity_id) \/ IsSensorId(e.entity_id)
                      /\ e.entity_id /= b.list_id
                      /\ \/ Contains(e.entity_id, BaseName(b.list_id))
                         \/ Contains(e.entity_id, "bring")
        Active(e, name) == Format(Get(e.attributes, name, <<>>), Done2, MakeR)
        Yields(e) == Related(e)
                     /\ \E k \in 1..Len(BringAttrs) : Active(e, BringAttrs[k]) /= <<>>
        hit == FirstPos(b.states, Yields)
        hitAttr == CHOOSE k \in 1..Len(BringAttrs) :
                       /\ Active(b.states[hit], BringAttrs[k]) /= <<>>
                       /\ \A j \in 1..(k - 1) :
                              Active(b.states[hit], BringAttrs[j]) = <<>>
    IN  IF a = 1
        THEN (IF out = "raise" THEN Raised
              ELSE IF out = "bad" THEN Continue(2)
              ELSE IF HasStr(ServiceItems(b)) THEN Raised
              ELSE Return(Format(ServiceItems(b), Done1, Make1)))
        ELSE IF a = 2
        THEN (IF out = "raise" THEN Raised
              ELSE IF out = "bad" THEN Continue(4)
              ELSE IF found /= <<>>
                   THEN Return(Format(Attr(b, found[1]), Done2, Make2))
              ELSE IF purchase /= <<>> THEN Return(purchase)
              ELSE IF StateNum(b.entity.state) > 0 THEN Continue(3)
              ELSE Continue(4))
        ELSE IF a = 3
        THEN (IF out = "raise" THEN Caught(4)
              ELSE IF out = "bad" \/ hit = 0 THEN Continue(4)
              ELSE Return(Active(b.states[hit], BringAttrs[hitAttr])))
        ELSE (IF out = "raise" THEN Raised
              ELSE IF out = "bad" THEN Return(<<>>)
              ELSE Return(Format(ServiceItems(b), Done3, Make3)))

(***************************************************************************)
(* _get_items_by_integration: the handler of an integration type, and the  *)
(* requests each handler issues, in order.                                 *)
(***************************************************************************)
\* faulty variant: the integration type is matched without regard to case
Handler_ignore_case(integration_type) ==
    IF integration_type \in KnownKinds THEN integration_type
    ELSE IF integration_type = "Todoist" THEN "todoist"
    ELSE "generic"

Handler(integration_type) ==
    IF integration_type \in KnownKinds THEN integration_type ELSE "generic"

Requests(handler) ==
    CASE handler = "local_todo"   -> <<"states">>
      [] handler = "google_tasks" -> <<"service", "states">>
      [] handler = "todoist"      -> <<"service", "states">>
      [] handler = "caldav"       -> <<"states">>
      [] handler = "alexa_todo"   -> <<"service", "states">>
      [] handler = "bring"        -> <<"service", "states", "service_raw_id">>
      [] handler = "legacy_shopping_list" -> <<"shopping_list">>
      [] OTHER                    -> <<"states", "todo_items", "service">>

(***************************************************************************)
(* get_list_items: the limit is [some |-> FALSE] for None.                 *)
(***************************************************************************)
NoLimit == [some |-> FALSE, n |-> 0]
Lim(n) == [some |-> TRUE, n |-> n]
Limits == {NoLimit, Lim(-1), Lim(0), Lim(1)}

Head_(s, n) == [k \in 1..n |-> s[k]]

\* faulty variant: keeps the last n items instead of the first n
Truncate_tail(all, limit) ==
    IF limit.some /\ limit.n /= 0 /\ limit.n > 0 /\ limit.n < Len(all)
    THEN [k \in 1..limit.n |-> all[Len(all) - limit.n + k]] ELSE all

\* faulty variant: an item whose name was already seen is left out
Truncate_dedup(all, limit) ==
    LET S == {p \in 1..Len(all) : \A q \in 1..(p - 1) : all[q].name /= all[p].name}
        first == [k \in 1..Cardinality(S) |->
                      all[CHOOSE p \in S : Cardinality({q \in S : q < p}) = k - 1]]
    IN  IF limit.some /\ limit.n /= 0 /\ limit.n > 0 /\ limit.n < Len(first)
        THEN Head_(first, limit.n) ELSE first

Truncate(all, limit) ==
    IF limit.some /\ limit.n /= 0 /\ limit.n > 0 /\ limit.n < Len(all)
    THEN Head_(all, limit.n) ELSE all

\* faulty variant: reports truncation only when the limit is one that cuts
Truncated_positive(all, limit) == limit.some /\ limit.n > 0 /\ Len(all) > limit.n

\* faulty variant: off-by-one comparison
Truncated_ge(all, limit) == limit.some /\ Len(all) >= limit.n

Truncated(all, limit) == limit.some /\ Len(all) > limit.n

Response(all, limit) ==
    [items |-> Truncate(all, limit),
     total_count |-> Len(all),
     truncated |-> Truncated(all, limit)]

NoResponse == [items |-> <<>>, total_count |-> -1, truncated |-> FALSE]

(***************************************************************************)
(* State                                                                   *)
(***************************************************************************)
VARIABLES
    backend,           \* the Home Assistant backend
    pc,                \* "idle", "detect", "extract", "done"
    limit,             \* the call's limit
    integration_type,  \* what _detect_integration_type returned
    attempt,           \* number of the handler's request in flight
    all_items,         \* the handler's full result
    response,          \* what get_list_items returned
    issued,            \* the requests issued so far, with their outcomes
    cursor,            \* get_lists: position in the states being processed
    todo_lists,        \* get_lists: the summaries collected so far
    provider,          \* the fields of the provider object (self.*)
    returned,          \* what the earlier calls returned, and against what
    other              \* the locals of a second call running concurrently

vars == <<backend, pc, limit, integration_type, attempt, all_items, response,
          issued, cursor, todo_lists, provider, returned, other>>

\* the locals of a call that has not started
IdleFrame == [pc |-> "idle", limit |-> NoLimit, integration_type |-> "",
              attempt |-> 0, all_items |-> <<>>, response |-> NoResponse,
              issued |-> <<>>]

\* __init__: the fields the constructor sets from the settings
HaUrl == "http://supervisor/core"
Provider(list_id) == [base_url |-> HaUrl, todo_list_entity_id |-> list_id]

Init ==
    /\ backend \in Backends
    /\ pc = "idle"
    /\ limit = NoLimit
    /\ integration_type = ""
    /\ attempt = 0
    /\ all_items = <<>>
    /\ response = NoResponse
    /\ issued = <<>>
    /\ cursor = 0
    /\ todo_lists = <<>>
    /\ provider = Provider(backend.list_id)
    /\ returned = <<>>
    /\ other = IdleFrame

\* a caller invokes get_list_items(limit); the classification request is sent
Call ==
    /\ pc = "idle"
    /\ \E l \in Limits : limit' = l
    /\ pc' = "detect"
    /\ UNCHANGED <<backend, integration_type, attempt, all_items, response, issued,
                   cursor, todo_lists, provider, returned, other>>

\* faulty variant: the kind is kept on the provider object and reused
Detect_remember ==
    /\ pc = "detect"
    /\ \E out \in Outcomes :
        LET kind == IF "integration_type" \in DOMAIN provider
                    THEN provider["integration_type"]
                    ELSE detect_integration_type(out, backend)
        IN  /\ integration_type' = kind
            /\ provider' = IF out = "ok" THEN ("integration_type" :> kind) @@ provider
                            ELSE provider
            /\ issued' = Append(issued, [req |-> "detect", out |-> out,
                                          exc |-> out = "raise"])
    /\ pc' = "extract"
    /\ attempt' = 1
    /\ UNCHANGED <<backend, limit, all_items, response, cursor, todo_lists, returned,
                   other>>

\* the classification request is answered; the handler's first request is sent
Detect ==
    /\ pc = "detect"
    /\ \E out \in Outcomes :
        /\ integration_type' = detect_integration_type(out, backend)
        /\ issued' = Append(issued, [req |-> "detect", out |-> out,
                                          exc |-> out = "raise"])
    /\ pc' = "extract"
    /\ attempt' = 1
    /\ UNCHANGED <<backend, limit, all_items, response, cursor, todo_lists,
                   provider, returned, other>>

\* a request of the handler is answered with outcome out and the handler
\* yields r: it returns (and get_list_items with it), or sends its next request
Step(handler, out, r) ==
    /\ issued' = Append(issued, [req |-> Requests(handler)[attempt], out |-> out,
                                  exc |-> r.exc])
    /\ IF r.ret
       THEN /\ all_items' = r.items
            /\ response' = Response(r.items, limit)
            /\ pc' = "done"
            /\ attempt' = attempt
       ELSE /\ attempt' = r.next
            /\ UNCHANGED <<all_items, response, pc>>
    /\ UNCHANGED <<backend, limit, integration_type, cursor, todo_lists,
                   provider, returned, other>>

LocalTodo ==
    /\ pc = "extract" /\ Handler(integration_type) = "local_todo"
    /\ \E out \in Outcomes :
        Step("local_todo", out, get_local_todo_items(attempt, out, backend))

GoogleTasks ==
    /\ pc = "extract" /\ Handler(integration_type) = "google_tasks"
    /\ \E out \in Outcomes :
        Step("google_tasks", out, get_google_tasks_items(attempt, out, backend))

Todoist ==
    /\ pc = "extract" /\ Handler(integration_type) = "todoist"
    /\ \E out \in Outcomes :
        Step("todoist", out, get_todoist_items(attempt, out, backend))

CalDav ==
    /\ pc = "extract" /\ Handler(integration_type) = "caldav"
    /\ \E out \in Outcomes :
        Step("caldav", out, get_caldav_items(attempt, out, backend))

AlexaTodo ==
    /\ pc = "extract" /\ Handler(integration_type) = "alexa_todo"
    /\ \E out \in Outcomes :
        Step("alexa_todo", out, get_alexa_todo_items(attempt, out, backend))

Bring ==
    /\ pc = "extract" /\ Handler(integration_type) = "bring"
    /\ \E out \in Outcomes, uuid \in UuidDraws :
        Step("bring", out, get_bring_items(attempt, out, backend, uuid))

LegacyShoppingList ==
    /\ pc = "extract" /\ Handler(integration_type) = "legacy_shopping_list"
    /\ \E out \in Outcomes :
        Step("legacy_shopping_list", out,
             get_legacy_shopping_list_items(attempt, out, backend))

Generic ==
    /\ pc = "extract" /\ Handler(integration_type) = "generic"
    /\ \E out \in Outcomes :
        Step("generic", out, get_generic_items(attempt, out, backend))

Next ==
    \/ Call
    \/ Detect
    \/ LocalTodo
    \/ GoogleTasks
    \/ Todoist
    \/ CalDav
    \/ AlexaTodo
    \/ Bring
    \/ LegacyShoppingList
    \/ Generic

Spec == Init /\ [][Next]_vars

(***************************************************************************)
(* get_lists of the multi-list provider (src/app/services/                 *)
(* list_provider.py): one GET /api/states, then for every todo.* entity,   *)
(* in order, its classification, its extraction and its summary; the       *)
(* legacy shopping list when no summary was made.                          *)
(***************************************************************************)
\* faulty variant: reads the integration attribute before supported_features
list_integration_type_attr_first(attrs) ==
    IF "integration" \in DOMAIN attrs THEN attrs["integration"]
    ELSE IF Get(attrs, "supported_features", 0) = BringFeatures THEN "bring"
    ELSE "unknown"

\* integration_type = "bring" if is_bring else attrs.get("integration", "unknown")
list_integration_type(attrs) ==
    IF Get(attrs, "supported_features", 0) = BringFeatures THEN "bring"
    ELSE Get(attrs, "integration", "unknown")

\* the dispatch at the head of get_list_items(list_id, integration_type)
AppKinds == {"local_todo", "google_tasks", "todoist", "caldav", "alexa_todo", "bring"}
AppHandler(kind) == IF kind \in AppKinds THEN kind ELSE "generic"

AppRequests(handler) ==
    CASE handler = "alexa_todo" -> <<"service", "states", "services_todo">>
      [] handler = "bring"      -> <<"service", "states", "states_all", "service_raw_id">>
      [] handler = "generic"    -> <<"states", "states_all", "todo_items", "service">>
      [] OTHER                  -> Requests(handler)

\* the backend as the requests about the entity at position c of the states see it
View(b, c) == IF c = 1 THEN b ELSE ViewOf(b, c - 1)

Summary(state, kind, items) ==
    [id |-> state.entity_id,
     name |-> Get(state.attributes, "friendly_name", BaseName(state.entity_id)),
     item_count |-> Len(items),
     integration |-> kind]

\* the loop of get_lists moves to the next todo.* entity at or after
\* position from, and sends the first request of its extraction; past the
\* last one, the legacy request is sent if no summary was made
Advance(from, lists) ==
    LET S == {k \in from..Len(backend.states) : IsTodoId(backend.states[k].entity_id)}
        nxt == CHOOSE k \in S : \A j \in S : k <= j
    IN  IF S /= {}
        THEN /\ cursor' = nxt
             /\ integration_type' = list_integration_type(backend.states[nxt].attributes)
             /\ attempt' = 1
             /\ pc' = "lists_extract"
        ELSE /\ pc' = IF lists = <<>> THEN "lists_legacy" ELSE "lists_done"
             /\ UNCHANGED <<cursor, integration_type, attempt>>

\* a caller invokes get_lists() against an installation: the entity may
\* carry a friendly name and stand next to further entities; GET /api/states
\* is sent
GetLists ==
    /\ pc = "idle"
    /\ \E friendly \in BOOLEAN, others \in {<<>>, <<Sensor>>, <<SecondTodo>>} :
          backend' = Installation(backend, friendly, others)
    /\ pc' = "lists_states"
    /\ UNCHANGED <<limit, integration_type, attempt, all_items, response,
                   issued, cursor, todo_lists, provider, returned, other>>

\* GET /api/states is answered
ListsStates ==
    /\ pc = "lists_states"
    /\ \E out \in Outcomes :
        /\ issued' = Append(issued, [req |-> "states_all", out |-> out,
                                     exc |-> out = "raise"])
        /\ IF out = "ok"
           THEN Advance(1, todo_lists)
           ELSE pc' = "lists_done" /\ UNCHANGED <<cursor, integration_type, attempt>>
    /\ UNCHANGED <<backend, limit, all_items, response, todo_lists, provider, returned, other>>

\* a request of the current entity's extraction is answered and the handler
\* yields r: on its return the summary is appended and the loop moves on
ListsStep(handler, out, r) ==
    /\ issued' = Append(issued, [req |-> AppRequests(handler)[attempt], out |-> out,
                                  exc |-> r.exc])
    /\ IF r.ret
       THEN /\ all_items' = r.items
            /\ todo_lists' = Append(todo_lists,
                                    Summary(backend.states[cursor], integration_type, r.items))
            /\ Advance(cursor + 1, todo_lists')
       ELSE /\ attempt' = r.next
            /\ UNCHANGED <<all_items, todo_lists, cursor, integration_type, pc>>
    /\ UNCHANGED <<backend, limit, response, provider, returned, other>>

ListsLocalTodo ==
    /\ pc = "lists_extract" /\ AppHandler(integration_type) = "local_todo"
    /\ \E out \in Outcomes :
        ListsStep("local_todo", out,
                  get_local_todo_items(attempt, out, View(backend, cursor)))

ListsGoogleTasks ==
    /\ pc = "lists_extract" /\ AppHandler(integration_type) = "google_tasks"
    /\ \E out \in Outcomes :
        ListsStep("google_tasks", out,
                  get_google_tasks_items(attempt, out, View(backend, cursor)))

ListsTodoist ==
    /\ pc = "lists_extract" /\ AppHandler(integration_type) = "todoist"
    /\ \E out \in Outcomes :
        ListsStep("todoist", out,
                  get_todoist_items(attempt, out, View(backend, cursor)))

ListsCalDav ==
    /\ pc = "lists_extract" /\ AppHandler(integration_type) = "caldav"
    /\ \E out \in Outcomes :
        ListsStep("caldav", out,
                  get_caldav_items(attempt, out, View(backend, cursor)))

ListsAlexaTodo ==
    /\ pc = "lists_extract" /\ AppHandler(integration_type) = "alexa_todo"
    /\ \E out \in Outcomes :
        ListsStep("alexa_todo", out,
                  get_alexa_todo_items_app(attempt, out, View(backend, cursor)))

ListsBring ==
    /\ pc = "lists_extract" /\ AppHandler(integration_type) = "bring"
    /\ \E out \in Outcomes, uuid \in UuidDraws :
        ListsStep("bring", out,
                  get_bring_items_app(attempt, out, View(backend, cursor), uuid))

ListsGeneric ==
    /\ pc = "lists_extract" /\ AppHandler(integration_type) = "generic"
    /\ \E out \in Outcomes :
        ListsStep("generic", out,
                  get_list_items_generic(attempt, out, View(backend, cursor)))

\* _try_legacy_shopping_list: GET /api/shopping_list is answered
ListsLegacy ==
    /\ pc = "lists_legacy"
    /\ \E out \in Outcomes :
        LET raises == out = "raise" \/ (out = "ok" /\ HasStr(backend.legacy))
            active == Kept(backend.legacy, LAMBDA item : Get(item, "complete", FALSE))
        IN  /\ issued' = Append(issued, [req |-> "shopping_list", out |-> out,
                                         exc |-> raises])
            /\ todo_lists' = IF out = "ok" /\ ~raises
                             THEN <<[id |-> LegacyListId,
                                     name |-> "Shopping List (Legacy)",
                                     item_count |-> Len(active)]>>
                             ELSE todo_lists
    /\ pc' = "lists_done"
    /\ UNCHANGED <<backend, limit, integration_type, attempt, all_items, response, cursor,
                   provider, returned, other>>

NextLists ==
    \/ GetLists
    \/ ListsStates
    \/ ListsLocalTodo
    \/ ListsGoogleTasks
    \/ ListsTodoist
    \/ ListsCalDav
    \/ ListsAlexaTodo
    \/ ListsBring
    \/ ListsGeneric
    \/ ListsLegacy

\* the backends get_lists is run against: the scenarios with a shorter list
ListBackends ==
    {MkBackend(sc.c[1], sc.c[2], sc.c[3], sc.L, sc.where, sc.rest) :
        sc \in {x \in Scenarios : Len(x.L) < MaxItems}}

InitLists ==
    /\ backend \in ListBackends
    /\ pc = "idle"
    /\ limit = NoLimit
    /\ integration_type = ""
    /\ attempt = 0
    /\ all_items = <<>>
    /\ response = NoResponse
    /\ issued = <<>>
    /\ cursor = 0
    /\ todo_lists = <<>>
    /\ provider = Provider(backend.list_id)
    /\ returned = <<>>
    /\ other = IdleFrame

SpecLists == InitLists /\ [][Next \/ NextLists]_vars

(***************************************************************************)
(* Properties                                                              *)
(***************************************************************************)
\* supported_features of an entry of the states, as the code reads it
FeaturesOf(attrs) == Get(attrs, "supported_features", 0)

\* C1: an entity whose supported_features is 71 is classified "bring"
\* whatever its integration attribute holds or lacks: by
\* _detect_integration_type once it has read the entity (the request was
\* answered 200), by get_lists when it dispatches the entity's extraction,
\* and in the summary get_lists makes of the entity.
C1_BringBy71 ==
    /\ (/\ pc \in {"extract", "done"}
        /\ issued[1].out = "ok"
        /\ FeaturesOf(backend.entity.attributes) = BringFeatures)
       => integration_type = "bring"
    /\ (/\ pc = "lists_extract"
        /\ FeaturesOf(backend.states[cursor].attributes) = BringFeatures)
       => integration_type = "bring"
    /\ \A k \in 1..Len(todo_lists) : \A j \in 1..Len(backend.states) :
          (/\ backend.states[j].entity_id = todo_lists[k].id
           /\ FeaturesOf(backend.states[j].attributes) = BringFeatures)
          => todo_lists[k].integration = "bring"

\* get_lists has summarised two entities with supported_features 71, one
\* without an integration attribute and one whose attribute says "todoist"
C1_Witness ==
    /\ pc = "lists_done"
    /\ Len(todo_lists) = 2
    /\ "integration" \notin DOMAIN backend.states[1].attributes
    /\ backend.states[2].attributes["integration"] = "todoist"
    /\ \A k \in 1..2 :
          /\ FeaturesOf(backend.states[k].attributes) = BringFeatures
          /\ todo_lists[k].integration = "bring"
    /\ todo_lists[2].item_count = 1

Min(x, y) == IF x < y THEN x ELSE y

IsPrefix(s, t) == Len(s) <= Len(t) /\ \A k \in 1..Len(s) : s[k] = t[k]

Last(s) == s[Len(s)]

\* the number of requests of the chain of the handler in use
ChainLen == Len(Requests(Handler(integration_type)))

\* the completion predicate the specification gives each kind (spec 4.3)
CompletedFor(kind, item) ==
    IF IsStr(item) THEN FALSE
    ELSE CASE kind = "bring" ->
                  \/ Get(item, "status", "") = "completed"
                  \/ Get(item, "complete", FALSE)
                  \/ Get(item, "checked", FALSE)
                  \/ Get(item, "purchase", FALSE)
           [] kind = "todoist" ->
                  Get(item, "checked", FALSE) \/ Get(item, "completed", FALSE)
           [] kind = "caldav" -> Get(item, "status", "") = "COMPLETED"
           [] OTHER ->
                  \/ Get(item, "status", "") = "completed"
                  \/ Get(item, "complete", FALSE)

\* C2: no returned item is one the kind's completion predicate marks as
\* completed, for every kind and every attempt of its chain.
C2_NoCompletedLeak ==
    pc = "done" =>
        \A k \in 1..Len(all_items) :
            ~CompletedFor(integration_type, all_items[k].raw)

\* C3: with a limit N >= 0 (N = 0 included) the call returns exactly
\* min(N, total_count) items.
C3_LenIsMin ==
    (pc = "done" /\ limit.some /\ limit.n >= 0) =>
        Len(response.items) = Min(limit.n, response.total_count)

\* C4: truncated equals (N < total_count) for every supplied limit N, and is
\* false when no limit is supplied.
C4_TruncatedFlag ==
    pc = "done" =>
        response.truncated = (limit.some /\ limit.n < response.total_count)

C4_Witness ==
    /\ pc = "done"
    /\ limit = Lim(0)
    /\ response.total_count = 2
    /\ response.truncated

\* C5: truncated is true exactly when the limit cut the sequence short, i.e.
\* truncated = (len(items) < total_count), for every limit value.
C5_TruncatedIffCut ==
    pc = "done" =>
        response.truncated = (Len(response.items) < response.total_count)

\* C6: the returned items are a head of the chain's full sequence, in the
\* same order, and total_count is the length of the full sequence.
C6_HeadTruncation ==
    pc = "done" =>
        /\ IsPrefix(response.items, all_items)
        /\ response.total_count = Len(all_items)

C6_Witness ==
    /\ pc = "done"
    /\ Len(all_items) = 2
    /\ all_items[1] /= all_items[2]
    /\ Len(response.items) = 1

\* C7: an attempt answered 200 whose normalized sequence is empty ends the
\* resolution only when it is the last attempt of the kind's chain (otherwise
\* the next attempt is issued).
C7_EmptyOkFallsThrough ==
    (pc = "done" /\ all_items = <<>>
        /\ Last(issued).out = "ok" /\ ~Last(issued).exc) =>
        attempt = ChainLen

\* C8: an attempt that raises ends the resolution only when it is the last
\* attempt of the chain (otherwise the remaining attempts are still issued).
C8_RaiseFallsThrough ==
    (pc = "done" /\ Last(issued).exc) => attempt = ChainLen

\* C9: an attempt answered with a non-200 status is followed by the next
\* attempt of the chain, and when it was the last attempt the resolution
\* returns an empty sequence.
C9_Non200FallsThrough ==
    \A k \in 2..Len(issued) :
        issued[k].out = "bad" =>
            IF k - 1 < ChainLen
            THEN \/ pc = "extract" /\ attempt = k
                 \/ /\ Len(issued) > k
                    /\ issued[k + 1].req = Requests(Handler(integration_type))[k]
            ELSE pc = "done" /\ all_items = <<>> /\ response.items = <<>>

C9_Witness ==
    /\ pc = "done"
    /\ Len(issued) = 4
    /\ issued[2].out = "bad" /\ issued[3].out = "bad" /\ issued[4].out = "ok"
    /\ all_items /= <<>>

\* C10: when every request of the call raises, the call returns items = [],
\* total_count = 0 and truncated = false (limit absent or non-negative).
C10_AllRaise ==
    (/\ pc = "done"
     /\ \A k \in 1..Len(issued) : issued[k].out = "raise"
     /\ (limit.some => limit.n >= 0)) =>
        response = [items |-> <<>>, total_count |-> 0, truncated |-> FALSE]

C10_Witness ==
    /\ pc = "done"
    /\ \A k \in 1..Len(issued) : issued[k].out = "raise"
    /\ limit = Lim(0)
    /\ backend.entity.attributes /= <<>>

\* some entity of GET /api/states has a todo-like id
HasTodoEntity == \E j \in 1..Len(backend.states) : IsTodoId(backend.states[j].entity_id)

\* the legacy items whose complete is falsy
LegacyActive == Kept(backend.legacy, LAMBDA item : Get(item, "complete", FALSE))

\* C11: when no todo-like entity exists, get_lists returns exactly one summary
\* if the legacy endpoint responds (id shopping_list.shopping_list,
\* integration legacy_shopping_list, item_count the number of legacy items
\* whose complete is falsy), and the empty sequence if it does not.
C11_LegacyFallback ==
    (pc = "lists_done" /\ issued[1].out = "ok" /\ ~HasTodoEntity) =>
        IF Last(issued).out = "ok" /\ ~Last(issued).exc
        THEN /\ Len(todo_lists) = 1
             /\ todo_lists[1].id = LegacyListId
             /\ todo_lists[1].item_count = Len(LegacyActive)
             /\ Get(todo_lists[1], "integration", "(absent)") = "legacy_shopping_list"
        ELSE todo_lists = <<>>

\* the kind the specification's classification rules (spec 4.1) give an
\* entity, written with the program's names of the kinds
SpecKind(id, attrs) ==
    IF FeaturesOf(attrs) = BringFeatures THEN "bring"
    ELSE IF Get(attrs, "integration", "") /= ""
         THEN (IF attrs["integration"] \in KnownKinds THEN attrs["integration"]
               ELSE "unknown")
    ELSE IF id = LegacyListId THEN "legacy_shopping_list"
    ELSE "unknown"

\* the positions of the todo-like entities in the states, in order
TodoPositions ==
    Kept(backend.states, LAMBDA e : ~IsTodoId(e.entity_id))

\* C12: get_lists returns one summary per todo-like entity, in order, and
\* none for other entities; each summary's integration is the entity's
\* classified kind and its item_count the number of items the entity's
\* extraction returned; when the states cannot be fetched the result is empty.
C12_OneSummaryPerTodoEntity ==
    pc = "lists_done" =>
        IF issued[1].out /= "ok" THEN todo_lists = <<>>
        ELSE HasTodoEntity =>
            /\ Len(todo_lists) = Len(TodoPositions)
            /\ \A k \in 1..Len(todo_lists) :
                LET e == backend.states[TodoPositions[k]]
                IN  /\ todo_lists[k].id = e.entity_id
                    /\ todo_lists[k].integration = SpecKind(e.entity_id, e.attributes)
            /\ Last(todo_lists).item_count = Len(all_items)

\* what the handler in use yields when its request a is answered with out
HandlerResult(handler, a, out, b, uuid) ==
    CASE handler = "local_todo"   -> get_local_todo_items(a, out, b)
      [] handler = "google_tasks" -> get_google_tasks_items(a, out, b)
      [] handler = "todoist"      -> get_todoist_items(a, out, b)
      [] handler = "caldav"       -> get_caldav_items(a, out, b)
      [] handler = "alexa_todo"   -> get_alexa_todo_items(a, out, b)
      [] handler = "bring"        -> get_bring_items(a, out, b, uuid)
      [] handler = "legacy_shopping_list" -> get_legacy_shopping_list_items(a, out, b)
      [] OTHER                    -> get_generic_items(a, out, b)

\* the backend b with the items of its service response carried in the
\* flat shape, and in the shape enveloped under the entity's id
FlatForm(b) == [b EXCEPT !.service = Flat(ServiceItems(b))]
EnvelopedForm(b) == [b EXCEPT !.service = Enveloped(b.list_id, ServiceItems(b))]

\* a service-call request of the handler in use is in flight
ServiceInFlight ==
    /\ pc = "extract"
    /\ Requests(Handler(integration_type))[attempt] \in {"service", "service_raw_id"}

\* C13: a service-call attempt yields the same normalized items from the flat
\* response {items: L} and from the enveloped response
\* {service_response: {entity_id: {items: L}}}.
C13_FlatEqualsEnveloped ==
    ServiceInFlight =>
        \A uuid \in UuidDraws :
            HandlerResult(Handler(integration_type), attempt, "ok",
                          FlatForm(backend), uuid)
            = HandlerResult(Handler(integration_type), attempt, "ok",
                            EnvelopedForm(backend), uuid)

\* the attribute names the state attempt of a handler probes, in order
ProbeList(handler) ==
    CASE handler = "alexa_todo" -> AlexaAttrs
      [] handler = "bring"      -> BringAttrs
      [] handler = "generic"    -> GenericAttrs
      [] OTHER                  -> <<>>

\* the position in names of the first attribute of b that is non-empty
\* (0: none), found by reading the attributes, not by the handlers' probe
WinnerPos(b, names) ==
    LET hit == {k \in 1..Len(names) :
                    names[k] \in DOMAIN b.entity.attributes
                    /\ Len(b.entity.attributes[names[k]]) > 0}
    IN  IF hit = {} THEN 0 ELSE CHOOSE k \in hit : \A j \in hit : k <= j

\* the backend b whose probed attributes after position w all hold rest
LaterAttrs(b, names, w, rest) ==
    [b EXCEPT !.entity.attributes =
        [n \in {names[k] : k \in (w + 1)..Len(names)} |-> rest] @@ @]

\* the state attempt of a handler with a probe list has just returned
StateAttemptReturned ==
    /\ pc = "done"
    /\ ProbeList(Handler(integration_type)) /= <<>>
    /\ Last(issued).req = "states" /\ Last(issued).out = "ok"

\* C14: in a state-attribute attempt whose first non-empty attribute is b, the
\* result is made of b's contents only and is the same whatever the
\* attributes probed after b hold (nothing, or other items).
C14_FirstNonEmptyWins ==
    LET names == ProbeList(Handler(integration_type))
        w == WinnerPos(backend, names)
        Result(b) == HandlerResult(Handler(integration_type), attempt, "ok", b, "uuid-a")
    IN  (StateAttemptReturned /\ w /= 0) =>
            /\ \A k \in 1..Len(all_items) :
                  \E p \in 1..Len(backend.entity.attributes[names[w]]) :
                      all_items[k].raw = backend.entity.attributes[names[w]][p]
            /\ \A rest \in {<<>>, <<Other>>, <<Oats>>} :
                  /\ Result(LaterAttrs(backend, names, w, rest)).items = all_items
                  /\ Result(LaterAttrs(backend, names, w, rest)).exc = Last(issued).exc

\* the second attribute of Bring's probe list won while a later one held items
C14_Witness ==
    /\ StateAttemptReturned
    /\ integration_type = "bring"
    /\ WinnerPos(backend, BringAttrs) = 2
    /\ Get(backend.entity.attributes, "purchases", <<>>) /= <<>>
    /\ all_items /= <<>>

\* backends that hold the same entity id and attributes as b and differ in
\* the entity's state and in their other responses
SameEntity(b) ==
    {[b EXCEPT !.entity.state = st, !.service = Flat(sv), !.todo_api = sv,
               !.legacy = sv] :
        st \in {"0", "1", "unavailable"}, sv \in {<<>>, <<Other>>}}

\* C15: classifying the same unchanged entity again yields the same kind:
\* once the entity has been read (the request was answered 200), the kind
\* is a function of the entity's id and attributes only.
C15_ClassificationIsFunction ==
    (pc \in {"extract", "done"} /\ issued[1].out = "ok") =>
        \A b \in SameEntity(backend) :
            detect_integration_type("ok", b) = integration_type

\* an entity with an integration attribute has been classified and resolved
C15_Witness ==
    /\ pc = "done" /\ issued[1].out = "ok"
    /\ integration_type = "caldav"
    /\ backend.entity.state /= "0"
    /\ all_items /= <<>>

\* the requests issued after the classification request are the first ones
\* of the chain of handler, in order
IssuedChainOf(handler) ==
    /\ Len(issued) - 1 <= Len(Requests(handler))
    /\ \A k \in 2..Len(issued) : issued[k].req = Requests(handler)[k - 1]

\* C16: an entity whose supported_features is not 71 and whose integration
\* attribute is present and non-empty is resolved with the chain of that
\* kind when the value is exactly a known kind, and with the Unknown chain
\* for every other value (a different case included); the classification
\* does not raise.
C16_LiteralKnownKind ==
    LET attrs == backend.entity.attributes
        kind == IF attrs["integration"] \in KnownKinds
                THEN attrs["integration"] ELSE "generic"
    IN  (/\ pc \in {"extract", "done"}
         /\ issued[1].out = "ok"
         /\ FeaturesOf(attrs) /= BringFeatures
         /\ Get(attrs, "integration", "") /= "")
        => /\ ~issued[1].exc
           /\ Handler(integration_type) = kind
           /\ IssuedChainOf(kind)

\* an entity whose integration attribute is "Todoist" was resolved with the
\* Unknown chain, from its items attribute
C16_Witness ==
    /\ pc = "done" /\ issued[1].out = "ok"
    /\ Get(backend.entity.attributes, "integration", "") = "Todoist"
    /\ Len(issued) = 2 /\ issued[2].req = "states"
    /\ all_items /= <<>>

\* C17: an entity whose supported_features is not 71 and whose integration
\* attribute is absent or empty is resolved through the legacy endpoint when
\* its id is shopping_list.shopping_list, and with the Unknown chain when it
\* has any other id.
C17_LegacyById ==
    LET attrs == backend.entity.attributes
        kind == IF backend.list_id = LegacyListId
                THEN "legacy_shopping_list" ELSE "generic"
    IN  (/\ pc \in {"extract", "done"}
         /\ issued[1].out = "ok"
         /\ FeaturesOf(attrs) /= BringFeatures
         /\ Get(attrs, "integration", "") = "")
        => /\ Handler(integration_type) = kind
           /\ IssuedChainOf(kind)

\* C18: a call made with the target list id missing from the configuration
\* ends in an explicit failure, not in the result record that provider and
\* transport failures end in.
C18_ConfigErrorSurfaced ==
    (pc = "done" /\ backend.list_id = NoListId) =>
        DOMAIN response /= {"items", "total_count", "truncated"}

\* C19: every item a chain returns has a non-empty id and a non-empty name,
\* whatever fields its raw item has or lacks.
C19_IdAndNameNonEmpty ==
    pc = "done" =>
        \A k \in 1..Len(all_items) :
            all_items[k].id /= "" /\ all_items[k].name /= ""

\* the names a raw item can be given before the quantity suffix: one of its
\* name fields, its string form, or its key in the purchase_items map
BaseNames(raw) ==
    {Get(raw, "summary", ""), Get(raw, "name", ""), Get(raw, "text", ""),
     StrOf(raw)}
    \cup {ItemIdx(i) : i \in 0..MaxItems}

\* C20: every item returned for a Bring entity whose raw record carries a
\* quantity is named "{name} ({quantity})", whichever attempt produced it.
C20_QuantitySuffix ==
    (pc = "done" /\ integration_type = "bring") =>
        \A k \in 1..Len(all_items) :
            LET raw == all_items[k].raw
            IN  (~IsStr(raw) /\ "quantity" \in DOMAIN raw) =>
                    \E bn \in BaseNames(raw) \ {""} :
                        all_items[k].name
                        = bn \o " (" \o Str(raw["quantity"]) \o ")"

\* the raw sequence the request a of handler reads from backend b when it is
\* answered 200: the body of the response, or the first non-empty attribute
\* of the handler's probe list (for Bring, the entries of purchase_items
\* when no probed attribute holds items)
\* (list_provider.py _get_*_items)
WinningRaw(handler, a, b) ==
    LET req == Requests(handler)[a]
        names == ProbeList(handler)
        w == WinnerPos(b, names)
        \* the entries of purchase_items that are items: those whose value
        \* is a record (list_provider.py:632-633)
        pmap == LET all == Get(b.entity.attributes, "purchase_items", <<>>)
                    idx == Kept(all, LAMBDA e : IsStr(e.data))
                IN  [k \in 1..Len(idx) |-> all[idx[k]]]
    IN  CASE req = "service" ->
                 IF handler = "bring" THEN ServiceItems(b)
                 ELSE Get(b.service, "items", <<>>)
          [] req = "service_raw_id" -> RawIdServiceItems(b)
          [] req = "todo_items" -> b.todo_api
          [] req = "shopping_list" -> b.legacy
          [] OTHER ->
                 IF names = <<>>
                 THEN Get(b.entity.attributes,
                          IF handler = "caldav" THEN "todos" ELSE "items", <<>>)
                 ELSE IF w /= 0 THEN b.entity.attributes[names[w]]
                 ELSE IF handler = "bring"
                      THEN [p \in 1..Len(pmap) |-> pmap[p].data]
                 ELSE <<>>

\* the strictly increasing maps from the positions of items into those of raw
Embeddings(items, raw) ==
    {f \in [1..Len(items) -> 1..Len(raw)] :
        /\ \A j, k \in 1..Len(items) : j < k => f[j] < f[k]
        /\ \A k \in 1..Len(items) : items[k].raw = raw[f[k]]}

\* the item carries one of the completion marks the handlers test
Marked(item) ==
    /\ ~IsStr(item)
    /\ \/ Get(item, "status", "") \in {"completed", "COMPLETED"}
       \/ Get(item, "complete", FALSE)
       \/ Get(item, "completed", FALSE)
       \/ Get(item, "checked", FALSE)
       \/ Get(item, "purchase", FALSE)
       \/ Get(item, "purchased", FALSE)

C22_ChainOrderNoRetry ==
    pc \in {"extract", "done"} =>
        LET handler == Handler(integration_type)
        IN  /\ IssuedChainOf(handler)
            /\ \A j, k \in 2..Len(issued) : j /= k => issued[j].req /= issued[k].req
            /\ \A k \in 2..(Len(issued) - 1) :
                  /\ ~issued[k].exc
                  /\ \/ issued[k].out = "bad"
                     \/ /\ issued[k].out = "ok"
                        /\ WinningRaw(handler, k - 1, backend) = <<>>
            /\ (pc = "done" => attempt = Len(issued) - 1)
            /\ (pc = "extract" => attempt = Len(issued) /\ all_items = <<>>)

\* the third attempt of the Bring chain produced the result after the
\* service call was refused and the entity's attributes held nothing
C22_Witness ==
    /\ pc = "done"
    /\ Len(issued) = 4
    /\ issued[2].out = "bad" /\ issued[3].out = "ok" /\ issued[4].out = "ok"
    /\ issued[4].req = "service_raw_id"
    /\ all_items /= <<>>

\* the request of the current entity's extraction that is in flight is the
\* re-read of all entities (the related-entity scan)
ScanInFlight ==
    /\ pc = "lists_extract"
    /\ AppRequests(AppHandler(integration_type))[attempt] = "states_all"

\* the raw items the responses about the entity of b itself hold
OwnItems(b) ==
    LET Elems(seq) == {seq[p] : p \in 1..Len(seq)}
        attrs == b.entity.attributes
        pmap == Get(attrs, "purchase_items", <<>>)
    IN  UNION {Elems(attrs[n]) : n \in {AttrNames[i] : i \in 1..Len(AttrNames)}
                                        \cap DOMAIN attrs}
        \cup {pmap[p].data : p \in 1..Len(pmap)}
        \cup Elems(ServiceItems(b)) \cup Elems(b.todo_api)

\* C23: the related-entity scan is performed only when the direct attempts
\* returned nothing and the target entity's state parses as a positive
\* integer; in every other case the items returned for a list come from the
\* responses about that entity only.
C23_ScanOnlyOnPositiveState ==
    /\ ScanInFlight => StateNum(View(backend, cursor).entity.state) > 0
    /\ (/\ pc = "lists_done" /\ cursor > 0
        /\ StateNum(View(backend, cursor).entity.state) <= 0) =>
          \A k \in 1..Len(all_items) :
              all_items[k].raw \in OwnItems(View(backend, cursor))

\* the attempts of the Bring chain by the request each one sends, in the
\* order the specification gives them (the state-attribute probe and the
\* purchase_items map read the same response)
BringOrder == <<"service", "states", "states_all", "service_raw_id">>

\* C24: for a Bring entity the attempts run in the order service call,
\* state-attribute probe, purchase_items map, related-entity scan, raw-id
\* service call; when the earlier attempts yield nothing and the entity's
\* state is a positive integer, the related-entity scan is performed before
\* the raw-id service call is issued.
C24_BringScanBeforeRawId ==
    (/\ pc \in {"extract", "done"}
     /\ issued[1].out = "ok"
     /\ FeaturesOf(backend.entity.attributes) = BringFeatures) =>
        /\ \A j, k \in 2..Len(issued) :
              j < k => \E m, n \in 1..Len(BringOrder) :
                          /\ m < n
                          /\ issued[j].req = BringOrder[m]
                          /\ issued[k].req = BringOrder[n]
        /\ \A k \in 3..Len(issued) :
              (/\ issued[k].req = "service_raw_id"
               /\ issued[k - 1].out = "ok"
               /\ StateNum(backend.entity.state) > 0)
              => issued[k - 1].req = "states_all"

(***************************************************************************)
(* Repeated calls: get_list_items is called again on the same provider     *)
(* object after the entity has changed in Home Assistant.                  *)
(***************************************************************************)
\* the backend b after the entity's integration attribute was changed
Reclassified(b) ==
    LET now == Get(b.entity.attributes, "integration", NoAttr)
        integ == IF now = "todoist" THEN "caldav" ELSE "todoist"
        entity == [b.entity EXCEPT !.attributes = ("integration" :> integ) @@ @]
    IN  [b EXCEPT !.entity = entity,
                  !.states = <<StateOf([list_id |-> b.list_id, entity |-> entity])>>]

\* the backend b after the list's items were replaced by the one item Other
Restocked(b) ==
    LET names == {AttrNames[i] : i \in 1..Len(AttrNames)}
        entity == [b.entity EXCEPT
                      !.state = "1",
                      !.attributes = [n \in names |-> <<Other>>] @@ @]
    IN  [b EXCEPT !.entity = entity,
                  !.service = Flat(<<Other>>),
                  !.todo_api = <<Other>>,
                  !.legacy = <<Other>>,
                  !.states = <<StateOf([list_id |-> b.list_id, entity |-> entity])>>]

\* the call has returned to its caller; the entity changes and a second call
\* is made: the locals of the first call are gone, the provider object stays
NextCall ==
    /\ pc = "done"
    /\ returned = <<>>
    /\ returned' = <<[backend |-> backend, integration_type |-> integration_type,
                      response |-> response]>>
    /\ backend' \in {Reclassified(backend), Restocked(backend),
                     Restocked(Reclassified(backend))}
    /\ pc' = "idle"
    /\ limit' = NoLimit
    /\ integration_type' = ""
    /\ attempt' = 0
    /\ all_items' = <<>>
    /\ response' = NoResponse
    /\ issued' = <<>>
    /\ UNCHANGED <<cursor, todo_lists, provider, other>>

\* the backends the repeated calls start from: every kind, with the list in
\* the first source of its kind
CallLists == {<<>>, <<Milk>>, <<Oats>>, <<Bread, Rice>>}

CallBackends ==
    {MkBackend(c[1], c[2], c[3], L, 1, FALSE) : c \in Classifs, L \in CallLists}

InitCalls ==
    /\ backend \in CallBackends
    /\ pc = "idle"
    /\ limit = NoLimit
    /\ integration_type = ""
    /\ attempt = 0
    /\ all_items = <<>>
    /\ response = NoResponse
    /\ issued = <<>>
    /\ cursor = 0
    /\ todo_lists = <<>>
    /\ provider = Provider(backend.list_id)
    /\ returned = <<>>
    /\ other = IdleFrame

SpecCalls == InitCalls /\ [][Next \/ NextCall]_vars

\* C25: nothing is cached across calls: the classification and the items of
\* a resolution are computed from the backend as it is at that call, also
\* when the entity has changed since an earlier call, and no resolution
\* changes a field of the provider object.
C25_NothingCached ==
    /\ provider = Provider(backend.list_id)
    /\ pc \in {"extract", "done"} =>
          integration_type = detect_integration_type(issued[1].out, backend)
    /\ pc = "done" =>
          /\ \E uuid \in UuidDraws :
                LET r == HandlerResult(Handler(integration_type), attempt,
                                       Last(issued).out, backend, uuid)
                IN  r.ret /\ r.items = all_items
          /\ response = Response(all_items, limit)

\* a second call returned other items, under another kind, than the first
C25_Witness ==
    /\ pc = "done" /\ Len(returned) = 1
    /\ returned[1].integration_type /= integration_type
    /\ returned[1].response.items /= <<>>
    /\ response.items /= <<>>
    /\ response.items /= returned[1].response.items
    /\ issued[1].out = "ok"

(***************************************************************************)
(* Concurrent calls: a second coroutine runs get_list_items on the same    *)
(* provider object (main.py: one list_provider serves every request); its  *)
(* steps interleave with the first call's at every await.                  *)
(***************************************************************************)
OtherLimits == {NoLimit, Lim(1)}

OtherCall ==
    /\ other.pc = "idle"
    /\ \E l \in OtherLimits : other' = [other EXCEPT !.pc = "detect", !.limit = l]
    /\ UNCHANGED <<backend, pc, limit, integration_type, attempt, all_items,
                   response, issued, cursor, todo_lists, provider, returned>>

\* faulty variant: the kind is kept in one place for both calls
OtherDetect_shared ==
    /\ other.pc = "detect"
    /\ \E out \in Outcomes :
        /\ other' = [other EXCEPT
              !.pc = "extract",
              !.integration_type = detect_integration_type(out, backend),
              !.attempt = 1,
              !.issued = Append(@, [req |-> "detect", out |-> out,
                                    exc |-> out = "raise"])]
        /\ integration_type' = detect_integration_type(out, backend)
    /\ UNCHANGED <<backend, pc, limit, attempt, all_items,
                   response, issued, cursor, todo_lists, provider, returned>>

OtherDetect ==
    /\ other.pc = "detect"
    /\ \E out \in Outcomes :
        other' = [other EXCEPT
            !.pc = "extract",
            !.integration_type = detect_integration_type(out, backend),
            !.attempt = 1,
            !.issued = Append(@, [req |-> "detect", out |-> out,
                                  exc |-> out = "raise"])]
    /\ UNCHANGED <<backend, pc, limit, integration_type, attempt, all_items,
                   response, issued, cursor, todo_lists, provider, returned>>

OtherExtract ==
    /\ other.pc = "extract"
    /\ \E out \in Outcomes, uuid \in UuidDraws :
        LET handler == Handler(other.integration_type)
            r == HandlerResult(handler, other.attempt, out, backend, uuid)
            log == Append(other.issued,
                          [req |-> Requests(handler)[other.attempt], out |-> out,
                           exc |-> r.exc])
        IN  other' = IF r.ret
                     THEN [other EXCEPT !.pc = "done", !.all_items = r.items,
                                        !.response = Response(r.items, other.limit),
                                        !.issued = log]
                     ELSE [other EXCEPT !.attempt = r.next, !.issued = log]
    /\ UNCHANGED <<backend, pc, limit, integration_type, attempt, all_items,
                   response, issued, cursor, todo_lists, provider, returned>>

NextOther ==
    \/ OtherCall
    \/ OtherDetect
    \/ OtherExtract

SpecConcurrent == InitCalls /\ [][Next \/ NextOther]_vars

\* the items a call returns when it runs alone against backend b, its
\* requests from number a on being answered as log records
RECURSIVE RunAlone(_, _, _, _, _)
RunAlone(handler, a, log, b, uuid) ==
    LET r == HandlerResult(handler, a, log[a + 1].out, b, uuid)
    IN  IF r.ret THEN r.items ELSE RunAlone(handler, r.next, log, b, uuid)

\* the locals of the first call, as a frame
Frame == [pc |-> pc, limit |-> limit, integration_type |-> integration_type,
          attempt |-> attempt, all_items |-> all_items, response |-> response,
          issued |-> issued]

\* the call of frame fr has returned what it returns when it runs alone and
\* its requests are answered the same way
SameAsAlone(fr) ==
    fr.pc = "done" =>
        LET kind == detect_integration_type(fr.issued[1].out, backend)
        IN  /\ fr.integration_type = kind
            /\ \E uuid \in UuidDraws :
                  fr.response = Response(RunAlone(Handler(kind), 1, fr.issued,
                                                  backend, uuid), fr.limit)

C27_BringDropsCompleted ==
    (pc = "done" /\ integration_type = "bring") =>
        \A k \in 1..Len(all_items) :
            LET raw == all_items[k].raw
            IN  IsStr(raw)
                \/ /\ Get(raw, "status", "") /= "completed"
                   /\ ~Get(raw, "complete", FALSE)
                   /\ ~Get(raw, "checked", FALSE)
                   /\ ~Get(raw, "purchase", FALSE)

\* the kinds that use the default completion test
DefaultKinds == {"local_todo", "google_tasks", "alexa_todo",
                 "legacy_shopping_list", "generic"}

\* C28: for LocalTodo, GoogleTasks, AlexaTodo, LegacyShoppingList and Unknown,
\* in every attempt, a raw item with status "completed" or with complete
\* truthy is dropped from the output.
C28_DefaultDropsCompleted ==
    (pc = "done" /\ Handler(integration_type) \in DefaultKinds) =>
        \A k \in 1..Len(all_items) :
            LET raw == all_items[k].raw
            IN  IsStr(raw)
                \/ /\ Get(raw, "status", "") /= "completed"
                   /\ ~Get(raw, "complete", FALSE)

\* C29: for a CalDav entity an item is dropped if and only if its status is
\* exactly "COMPLETED": an item whose status is "completed" in lower case, or
\* that only has complete truthy, is returned.
C29_CalDavUpperCaseOnly ==
    (/\ pc = "done" /\ Handler(integration_type) = "caldav"
     /\ Last(issued).out = "ok" /\ ~Last(issued).exc) =>
        LET todos == Get(backend.entity.attributes, "todos", <<>>)
            kept == {p \in 1..Len(todos) : Get(todos[p], "status", "") /= "COMPLETED"}
        IN  /\ Len(all_items) = Cardinality(kept)
            /\ \A p \in kept : \E k \in 1..Len(all_items) : all_items[k].raw = todos[p]
            /\ \A k \in 1..Len(all_items) :
                  \E p \in kept : all_items[k].raw = todos[p]

\* of an item marked "COMPLETED" and one marked "completed", the second
\* alone was returned
C29_Witness ==
    /\ pc = "done" /\ integration_type = "caldav"
    /\ Get(backend.entity.attributes, "todos", <<>>) = <<Jam, Rice>>
    /\ Len(all_items) = 1
    /\ all_items[1].raw = Rice

\* C30: for a Todoist entity, in both attempts of its chain (service call,
\* state attribute items), an item is dropped if and only if checked or
\* completed is truthy.
C30_TodoistCheckedOrCompleted ==
    (/\ pc = "done" /\ Handler(integration_type) = "todoist"
     /\ Last(issued).out = "ok" /\ ~Last(issued).exc) =>
        LET raw == WinningRaw("todoist", attempt, backend)
            kept == {p \in 1..Len(raw) :
                        ~(Get(raw[p], "checked", FALSE) \/ Get(raw[p], "completed", FALSE))}
        IN  /\ Len(all_items) = Cardinality(kept)
            /\ \A p \in kept : \E k \in 1..Len(all_items) : all_items[k].raw = raw[p]
            /\ \A k \in 1..Len(all_items) : \E p \in kept : all_items[k].raw = raw[p]

\* the state attempt returned an item whose complete is true but which is
\* neither checked nor completed
C30_Witness ==
    /\ pc = "done" /\ integration_type = "todoist"
    /\ attempt = 2 /\ Last(issued).out = "ok"
    /\ Get(backend.entity.attributes, "items", <<>>) = <<Salt>>
    /\ Len(all_items) = 1
    /\ all_items[1].raw = Salt

\* C31: when the winning attempt's raw sequence holds bare-string items, each
\* of them is returned with id item_{index} (its position in the raw
\* sequence) and the string itself as name, for every kind and attempt; a
\* string-shaped item never makes the resolution return empty.
C31_BareStringsReturned ==
    (pc = "done" /\ Last(issued).out = "ok") =>
        LET raw == WinningRaw(Handler(integration_type), attempt, backend)
        IN  \A p \in 1..Len(raw) :
                IsStr(raw[p]) =>
                    \E k \in 1..Len(all_items) :
                        /\ all_items[k].raw = raw[p]
                        /\ all_items[k].id = ItemIdx(p - 1)
                        /\ all_items[k].name = raw[p].bare

\* C32: the id of a returned record-shaped item is the first non-empty value
\* among the raw item's uid, id, item_id / itemId, in that order; only when
\* all are empty or absent is a placeholder used (item_{index}, or a random
\* identifier for Bring).
C32_IdFallbackOrder ==
    pc = "done" =>
        \A k \in 1..Len(all_items) :
            LET raw == all_items[k].raw
                first == Or(Get(raw, "uid", ""), Or(Get(raw, "id", ""),
                            Or(Get(raw, "item_id", ""), Get(raw, "itemId", ""))))
            IN  ~IsStr(raw) =>
                    IF first /= "" THEN all_items[k].id = first
                    ELSE \/ \E i \in 0..MaxItems : all_items[k].id = ItemIdx(i)
                         \/ /\ integration_type = "bring"
                            /\ \E uuid \in UuidDraws, i \in 0..MaxItems :
                                  all_items[k].id = Uuid4(uuid, i)

\* C33: for an Unknown-kind entity the attempts run in the order
\* state-attribute probe, generic todo-API endpoint, generic service call,
\* and the service call is issued whenever the two earlier attempts yielded
\* no items.
C33_UnknownChainReachesService ==
    (pc \in {"extract", "done"} /\ Handler(integration_type) = "generic") =>
        /\ IssuedChainOf("generic")
        /\ (pc = "done" /\ all_items = <<>> /\ ~Last(issued).exc) =>
              /\ Len(issued) = 4
              /\ issued[4].req = "service"


(***************************************************************************)
(* Route handlers (main.py): what the HTTP caller is answered.  A handler's *)
(* try-body either returns or raises; HTTPException is an Exception, so an *)
(* "except Exception" clause catches it as well.                           *)
(***************************************************************************)
Returns == [raised |-> FALSE, cls |-> "", status |-> 200]
Raise(cls, status) == [raised |-> TRUE, cls |-> cls, status |-> status]

\* how a call made inside a handler's try-body ends
CallEnds == {"ok", "raise"}

\* shop/app/main.py process_list: result is what get_list_items returned,
\* llm how llm_service.process_shopping_list ends
process_list(result, llm) ==
    LET body == IF result.items = <<>>
                THEN Raise("HTTPException", 404)
                ELSE IF llm = "raise" THEN Raise("Exception", 500) ELSE Returns
    IN  IF body.raised
        THEN Raise("HTTPException", 500)     \* except Exception as e
        ELSE body

\* app/main.py process_list: items is what get_list_items(list_id, ...) returned
process_list_app(items, llm) ==
    LET body == IF items = <<>>
                THEN Raise("HTTPException", 404)
                ELSE IF llm = "raise" THEN Raise("Exception", 500) ELSE Returns
    IN  IF body.raised
        THEN Raise("HTTPException", 500)     \* except Exception as e
        ELSE body

\* the JSON bodies posted to /api/print: each field present or missing
PrintRequests == [content : {"", "list"}, printer_address : {"", "10.0.0.9"}]

\* how the connection to the printer ends
Connections == {"ok", "timeout", "gaierror", "refused"}

\* shop/app/main.py print_list
print_list(data, conn) ==
    LET body == IF data.content = "" \/ data.printer_address = ""
                THEN Raise("HTTPException", 400)
                ELSE CASE conn = "ok" -> Returns
                       [] conn = "timeout" -> Raise("socket.timeout", 500)
                       [] conn = "gaierror" -> Raise("socket.gaierror", 500)
                       [] OTHER -> Raise("Exception", 500)
    IN  CASE ~body.raised -> body
          [] body.cls = "socket.timeout" -> Raise("HTTPException", 500)
          [] body.cls = "socket.gaierror" -> Raise("HTTPException", 400)
          [] OTHER -> Raise("HTTPException", 500)   \* except Exception as e

\* C34: a client error that a route handler raises on purpose reaches the
\* HTTP caller with its own status code: process_list answers 404 when the
\* resolved list has no items, and print_list answers 400 when content or
\* printer_address is missing; neither is turned into a 500.
C34_ClientErrorsKeepStatus ==
    (pc = "done" /\ response.items = <<>>) =>
        /\ \A llm \in CallEnds :
              /\ process_list(response, llm).status = 404
              /\ process_list_app(response.items, llm).status = 404
        /\ \A data \in PrintRequests, conn \in Connections :
              (data.content = "" \/ data.printer_address = "")
                  => print_list(data, conn).status = 400


Versions(b) == {v \in CallBackends : v.list_id = b.list_id /\ v /= b}

\* the entity changes once, after the classification read was answered; the
\* version the classification saw is kept in returned
EntityChanges ==
    /\ pc = "extract"
    /\ returned = <<>>
    /\ returned' = <<[backend |-> backend, integration_type |-> integration_type,
                      response |-> response]>>
    /\ backend' \in Versions(backend)
    /\ UNCHANGED <<pc, limit, integration_type, attempt, all_items, response,
                   issued, cursor, todo_lists, provider, other>>

SpecChanging == InitCalls /\ [][Next \/ EntityChanges]_vars

\* the versions of the entity the call has met
Snapshots == {backend} \cup {returned[i].backend : i \in 1..Len(returned)}

\* what the handler returns against backend b when its requests from number
\* a on are answered as log records: none when it would have issued other
\* requests than the log holds
RECURSIVE Replay(_, _, _, _, _)
Replay(handler, a, log, b, uuid) ==
    IF a + 1 > Len(log) \/ log[a + 1].req /= Requests(handler)[a]
    THEN [some |-> FALSE, items |-> <<>>]
    ELSE LET r == HandlerResult(handler, a, log[a + 1].out, b, uuid)
         IN  IF r.ret
             THEN [some |-> a + 1 = Len(log), items |-> r.items]
             ELSE Replay(handler, r.next, log, b, uuid)

\* the call has returned what it returns against the single version b
FromSnapshot(b) ==
    /\ integration_type = detect_integration_type(issued[1].out, b)
    /\ \E uuid \in UuidDraws :
          LET alone == Replay(Handler(integration_type), 1, issued, b, uuid)
          IN  alone.some /\ response = Response(alone.items, limit)

\* C36: within one resolution, classification and extraction observe one
\* and the same version of the entity: if the entity changes between the
\* requests of a call, the result is still one that a single version of the
\* entity would have produced.
C36_OneSnapshot ==
    pc = "done" => \E b \in Snapshots : FromSnapshot(b)


(***************************************************************************)
(* Termination: every request the call is waiting for is answered (it      *)
(* returns, or fails with a status or an exception).                       *)
(***************************************************************************)
Answered ==
    \/ Detect
    \/ LocalTodo
    \/ GoogleTasks
    \/ Todoist
    \/ CalDav
    \/ AlexaTodo
    \/ Bring
    \/ LegacyShoppingList
    \/ Generic

\* the backends the calls are followed to their end against: every
\* classification, the list empty or of one item, held by each source in turn
AnsweredBackends ==
    {MkBackend(sc.c[1], sc.c[2], sc.c[3], sc.L, sc.where, FALSE) :
        sc \in {t \in Scenarios : t.L \in {<<>>, <<Milk>>} /\ ~t.rest}}

InitAnswered ==
    /\ backend \in AnsweredBackends
    /\ pc = "idle"
    /\ limit = NoLimit
    /\ integration_type = ""
    /\ attempt = 0
    /\ all_items = <<>>
    /\ response = NoResponse
    /\ issued = <<>>
    /\ cursor = 0
    /\ todo_lists = <<>>
    /\ provider = Provider(backend.list_id)
    /\ returned = <<>>
    /\ other = IdleFrame

SpecAnswered == InitAnswered /\ [][Next]_vars /\ WF_vars(Answered)

\* C37: every call terminates, provided each backend request returns or
\* fails: it issues at most 4 backend requests (one classification read, the
\* first, plus at most three extraction requests) for every kind and every
\* combination of backend responses, the number of the attempt in flight
\* only grows, and a call that was made returns.
C37_Terminates ==
    /\ [](/\ Len(issued) <= 4
          /\ \A k \in 1..Len(issued) : (issued[k].req = "detect") <=> (k = 1))
    /\ [][pc = "extract" /\ pc' = "extract" => attempt' > attempt]_vars
    /\ (pc = "detect") ~> (pc = "done")

\* a call returned after four requests, the last attempt of a chain of three
C37_Witness ==
    /\ pc = "done"
    /\ Len(issued) = 4
    /\ attempt = 3
    /\ response.items /= <<>>


(***************************************************************************)
(* The items route of src/app/main.py, GET /api/lists/{list_id}/items: it  *)
(* calls get_lists(), looks list_id up in the summaries for its            *)
(* integration ("unknown" when the summary has none, or no summary has the *)
(* id), and calls get_list_items(list_id, integration_type).               *)
(***************************************************************************)
\* the dispatch of get_list_items(list_id, integration_type), the legacy
\* branch of its fall-through included
AppItemsHandler(list_id, kind) ==
    IF kind \in AppKinds THEN kind
    ELSE IF list_id = LegacyListId THEN "legacy_shopping_list"
    ELSE "generic"

AppChain(handler) ==
    IF handler = "legacy_shopping_list" THEN <<"shopping_list">>
    ELSE AppRequests(handler)

\* what the handler in use yields when its request a is answered with out
AppHandlerResult(handler, a, out, b, uuid) ==
    CASE handler = "local_todo"   -> get_local_todo_items(a, out, b)
      [] handler = "google_tasks" -> get_google_tasks_items(a, out, b)
      [] handler = "todoist"      -> get_todoist_items(a, out, b)
      [] handler = "caldav"       -> get_caldav_items(a, out, b)
      [] handler = "alexa_todo"   -> get_alexa_todo_items_app(a, out, b)
      [] handler = "bring"        -> get_bring_items_app(a, out, b, uuid)
      [] handler = "legacy_shopping_list" -> get_legacy_shopping_list_items(a, out, b)
      [] OTHER                    -> get_list_items_generic(a, out, b)

\* faulty variant: the summaries are not consulted
IntegrationOf_unknown(lists, list_id) == "unknown"

\* lst.get("integration", "unknown") of the summary whose id is list_id
IntegrationOf(lists, list_id) ==
    LET S == {k \in 1..Len(lists) : lists[k].id = list_id}
        k == CHOOSE i \in S : \A j \in S : i <= j
    IN  IF S = {} THEN "unknown" ELSE Get(lists[k], "integration", "unknown")

\* the backend as the requests about the entity list_id see it
ViewById(b, list_id) ==
    LET S == {j \in 1..Len(b.states) : b.states[j].entity_id = list_id}
    IN  IF S = {} THEN b ELSE View(b, CHOOSE j \in S : \A i \in S : j <= i)

\* get_list_items of main.py: get_lists has returned todo_lists; the
\* integration of one of the lists it reported is looked up and the first
\* request of get_list_items(list_id, integration_type) is sent
ListItems ==
    /\ pc = "lists_done"
    /\ \E k \in 1..Len(todo_lists) :
          LET list_id == todo_lists[k].id
          IN  returned' = <<[list_id |-> list_id,
                             integration_type |-> IntegrationOf(todo_lists, list_id),
                             attempt |-> 1, log |-> <<>>, backend |-> backend,
                             response |-> [items |-> <<>>]]>>
    /\ pc' = "items_extract"
    /\ UNCHANGED <<backend, limit, integration_type, attempt, all_items, response,
                   issued, cursor, todo_lists, provider, other>>

\* a request of the route's get_list_items is answered: the handler returns,
\* and the route with it ({"items": items}), or sends its next request
ItemsStep ==
    /\ pc = "items_extract"
    /\ \E out \in Outcomes, uuid \in UuidDraws :
          LET call == returned[1]
              handler == AppItemsHandler(call.list_id, call.integration_type)
              r == AppHandlerResult(handler, call.attempt, out,
                                    ViewById(backend, call.list_id), uuid)
              log == Append(call.log, [req |-> AppChain(handler)[call.attempt],
                                       out |-> out, exc |-> r.exc])
          IN  IF r.ret
              THEN /\ returned' = <<[call EXCEPT !.log = log,
                                                 !.response = [items |-> r.items]]>>
                   /\ pc' = "items_done"
              ELSE /\ returned' = <<[call EXCEPT !.log = log, !.attempt = r.next]>>
                   /\ pc' = pc
    /\ UNCHANGED <<backend, limit, integration_type, attempt, all_items, response,
                   issued, cursor, todo_lists, provider, other>>

\* the installations the items route is followed against: every
\* classification, the list held by each source in turn; the list is empty,
\* or holds one item, active or completed
ItemLists == {<<>>, <<Milk>>, <<Salt>>}

ItemBackends ==
    {MkBackend(sc.c[1], sc.c[2], sc.c[3], sc.L, sc.where, FALSE) :
        sc \in {x \in Scenarios : x.L \in ItemLists /\ ~x.rest}}

InitItems ==
    /\ backend \in ItemBackends
    /\ pc = "idle"
    /\ limit = NoLimit
    /\ integration_type = ""
    /\ attempt = 0
    /\ all_items = <<>>
    /\ response = NoResponse
    /\ issued = <<>>
    /\ cursor = 0
    /\ todo_lists = <<>>
    /\ provider = Provider(backend.list_id)
    /\ returned = <<>>
    /\ other = IdleFrame

SpecItems == InitItems /\ [][NextLists \/ ListItems \/ ItemsStep]_vars

\* the position in issued of the request on whose answer the handler, its
\* request a being the one at position from, returned
RECURSIVE SegEnd(_, _, _, _)
SegEnd(handler, a, from, b) ==
    LET r == AppHandlerResult(handler, a, issued[from].out, b, "uuid-a")
    IN  IF r.ret THEN from ELSE SegEnd(handler, r.next, from + 1, b)

\* the position in issued of the first request of the extraction get_lists
\* ran for its k-th summary
RECURSIVE SegStart(_)
SegStart(k) ==
    IF k = 1 THEN 2
    ELSE LET id == todo_lists[k - 1].id
         IN  SegEnd(AppItemsHandler(id, todo_lists[k - 1].integration), 1,
                    SegStart(k - 1), ViewById(backend, id)) + 1

\* the requests get_lists issued for the list of its k-th summary
EnumLog(k) ==
    IF "integration" \notin DOMAIN todo_lists[k] THEN <<Last(issued)>>
    ELSE LET id == todo_lists[k].id
             from == SegStart(k)
         IN  SubSeq(issued, from,
                    SegEnd(AppItemsHandler(id, todo_lists[k].integration), 1,
                           from, ViewById(backend, id)))

\* C38: against an unchanged backend (the requests about the list answered
\* as they were for get_lists), the item_count that get_lists reports for a
\* list equals the number of items the items route returns for the same list
\* id, for every todo-like entity and for the legacy shopping list.
C38_CountMatchesItems ==
    pc = "items_done" =>
        \A k \in 1..Len(todo_lists) :
            (/\ todo_lists[k].id = returned[1].list_id
             /\ [i \in 1..Len(EnumLog(k)) |-> EnumLog(k)[i].out]
                    = [i \in 1..Len(returned[1].log) |-> returned[1].log[i].out])
                => todo_lists[k].item_count = Len(returned[1].response.items)

\* the route returned the one active item of the legacy shopping list
C38_Witness ==
    /\ pc = "items_done"
    /\ returned[1].list_id = LegacyListId
    /\ "integration" \notin DOMAIN todo_lists[1]
    /\ returned[1].log = <<Last(issued)>>
    /\ todo_lists[1].item_count = 1
    /\ Len(returned[1].response.items) = 1

====
